---- MODULE Spec2Model ----
(***************************************************************************)
(* A model of the charting engine of weather-banner (src/src/lib.rs,       *)
(* src/src/time.rs, src/src/render.rs): Range/Unit, Series, Scale, the     *)
(* calendar iterators and the three charts of a render pass.               *)
(*                                                                         *)
(* f64 values are modelled as exact rationals [n, d] in lowest terms with  *)
(* d >= 0; d = 0 encodes the IEEE specials (+inf = 1/0, -inf = -1/0,       *)
(* NaN = 0/0) that a division by zero produces.  Rounding is not modelled. *)
(* Option<f64> is a record [some, v].                                      *)
(***************************************************************************)
EXTENDS Integers, Sequences, FiniteSets, TLC

VARIABLES
    input,      \* what the Series under test was built from
    series,     \* the Series under test (receiver of the method calls)
    call,       \* the last call made on it, with its arguments
    ret,        \* what that call returned
    rng,        \* Range under test (receiver of normalize / project)
    rcall,      \* the last call made on it
    rret,       \* what that call returned
    rprev,      \* the call whose result was passed on as rcall's argument
    scale,      \* the Scale under test (receiver of label_for)
    scall,      \* the last Scale call made, with its arguments
    sret,       \* what that call returned
    tyear,      \* the time::Year under test
    titer,      \* the DaysIter or MonthsIter being driven over it
    yielded,    \* what that iterator has yielded so far
    earlier,    \* what the iterator driven before it yielded in all
    pass,       \* render: the year, station and options of the pass
    pc,         \* render: the chart the pass draws next
    chart,      \* render: what the chart drawn last computed
    ctx,        \* the calls made on the cairo Context so far, in their order
    ccall,      \* the drawing function called on a Context of its own
    files,      \* Data: what lies at each destination of the data directory
    requested,  \* Data: the destinations fetched so far, in their order
    dcall       \* Data: the last download_and_open call and what it returned

seriesVars == <<input, series, call, ret>>
rangeVars == <<rng, rcall, rret, rprev>>
scaleVars == <<scale, scall, sret>>
timeVars == <<tyear, titer, yielded, earlier>>
renderVars == <<pass, pc, chart>>
canvasVars == <<ctx, ccall>>
dataVars == <<files, requested, dcall>>
vars == <<seriesVars, rangeVars, scaleVars, timeVars, renderVars, canvasVars, dataVars>>

----------------------------------------------------------------------------
(* Bounds of the model *)

MaxLen == 3         \* longest iterator handed to from_iterator
MaxRecords == 2     \* most day records handed to for_each_day
MaxDays == 400      \* most calls of next() made on one DaysIter
MaxTicks == 120     \* most ticks from_range_with_step is let to push
MaxIters == 2       \* most iterators made over one Year
MaxFactor == 3      \* greatest downsample_by of a render pass
MaxCalls == 4       \* most fetches download_and_open is let to make

----------------------------------------------------------------------------
(* f64 arithmetic on exact rationals *)

Abs(x) == IF x < 0 THEN -x ELSE x

Sign(x) == IF x < 0 THEN -1 ELSE IF x > 0 THEN 1 ELSE 0

RECURSIVE Gcd(_, _)
Gcd(a, b) == IF b = 0 THEN a ELSE Gcd(b, a % b)

\* n/d in lowest terms, d >= 0; x/0 is +inf, -inf or NaN by the sign of x
Rat(n, d) ==
    IF d = 0 THEN [n |-> Sign(n), d |-> 0]
    ELSE LET g == Gcd(Abs(n), Abs(d))
             s == Sign(d)
         IN  [n |-> (s * n) \div g, d |-> (s * d) \div g]

F(i) == [n |-> i, d |-> 1]

NaN == [n |-> 0, d |-> 0]

IsNaN(a) == a.d = 0 /\ a.n = 0

\* stand-ins for f64::MAX and f64::MIN: the largest and the smallest finite
\* value; every modelled measurement lies strictly between them
F64_MAX_INT == 1000000

F64_MAX == F(F64_MAX_INT)

F64_MIN == F(-F64_MAX_INT)

\* the result of an operation that lies beyond the largest finite value is
\* an infinity
Overflow(a) ==
    IF a.d # 0 /\ (Abs(a.n) - 1) \div a.d >= F64_MAX_INT
    THEN [n |-> Sign(a.n), d |-> 0]
    ELSE a

FAdd(a, b) ==
    IF a.d = 0 /\ b.d = 0
    THEN (IF a.n = b.n THEN a ELSE NaN)
    ELSE Overflow(Rat(a.n * b.d + b.n * a.d, a.d * b.d))

FNeg(a) == [n |-> -a.n, d |-> a.d]

FSub(a, b) == FAdd(a, FNeg(b))

FMul(a, b) == Overflow(Rat(a.n * b.n, a.d * b.d))

\* a / b; 0/0, inf/inf are NaN, x/0 is +-inf
FDiv(a, b) ==
    IF IsNaN(a) \/ IsNaN(b) \/ (a.d = 0 /\ b.d = 0) THEN NaN
    ELSE IF b.n < 0 THEN Overflow(Rat(-(a.n * b.d), a.d * (-b.n)))
    ELSE Overflow(Rat(a.n * b.d, a.d * b.n))

\* a < b; every comparison with NaN is false
FLt(a, b) ==
    IF IsNaN(a) \/ IsNaN(b) THEN FALSE
    ELSE IF a.d = 0 /\ b.d = 0 THEN a.n < b.n
    ELSE IF a.d = 0 THEN a.n < 0
    ELSE IF b.d = 0 THEN b.n > 0
    ELSE a.n * b.d < b.n * a.d

FLe(a, b) == ~IsNaN(a) /\ ~IsNaN(b) /\ ~FLt(b, a)

\* f64::min / f64::max: the other operand when one is NaN
FMin(a, b) == IF IsNaN(a) THEN b ELSE IF IsNaN(b) THEN a ELSE IF FLt(b, a) THEN b ELSE a

FMax(a, b) == IF IsNaN(a) THEN b ELSE IF IsNaN(b) THEN a ELSE IF FLt(a, b) THEN b ELSE a

FAbs(a) == [n |-> Abs(a.n), d |-> a.d]

\* f64::floor: the infinities and NaN are returned as they are
FFloor(a) == IF a.d = 0 THEN a ELSE F(a.n \div a.d)

\* the integer e with 10^e <= n/d < 10^(e+1), for n/d > 0
RECURSIVE Exp10(_, _)
Exp10(n, d) ==
    IF n >= 10 * d THEN Exp10(n, 10 * d) + 1
    ELSE IF n < d THEN Exp10(10 * n, d) - 1
    ELSE 0

\* a.log10().floor(): log10 of a negative number is NaN, of 0 it is -inf.
\* The logarithm itself is irrational; only its floor is ever used.
Log10Floor(a) ==
    IF IsNaN(a) \/ a.n < 0 THEN NaN
    ELSE IF a.n = 0 THEN Rat(-1, 0)
    ELSE IF a.d = 0 THEN a
    ELSE F(Exp10(a.n, a.d))

\* (10.0f64).powf(e) for the floored exponents: 10^-inf = 0, 10^inf = inf
Pow10(e) ==
    IF IsNaN(e) THEN NaN
    ELSE IF e.d = 0 THEN (IF e.n < 0 THEN F(0) ELSE e)
    ELSE IF e.n >= 0 THEN F(10 ^ e.n)
    ELSE Rat(1, 10 ^ (-e.n))

\* TLC evaluates an operator's arguments when they are first used; a loop of
\* some hundred iterations written as a plain recursion nests that deep.
\* Loops are therefore split in halves, and the test Evaluated(x) makes TLC
\* compute the first half before the second one starts.
Evaluated(x) == x = x

\* Option<f64>
None == [some |-> FALSE, v |-> F(0)]

Some(v) == [some |-> TRUE, v |-> v]

\* the program has panicked: no further call is made
Panic == [kind |-> "panic"]

----------------------------------------------------------------------------
(* Unit and Range, src/src/lib.rs:89-143 *)

Unit_new(v) == [v |-> v]

Unit_zero == [v |-> F(0)]

Range_new(min, max) == [min |-> min, max |-> max]

\* a faulty variant: min is not subtracted
Range_normalize_no_offset(self, v) ==
    LET r == FSub(self.max, self.min)
    IN  Unit_new(FDiv(v, r))

Range_normalize(self, v) ==
    LET r == FSub(self.max, self.min)
    IN  Unit_new(FDiv(FSub(v, self.min), r))

Range_project(self, u) ==
    LET r == FSub(self.max, self.min)
    IN  FAdd(self.min, FMul(u.v, r))

\* a faulty variant: the overlap of the two ranges, as the name suggests
Range_intersect_overlap(a, b) ==
    [min |-> FMax(a.min, b.min), max |-> FMin(a.max, b.max)]

Range_intersect(a, b) ==
    [min |-> FMin(a.min, b.min), max |-> FMax(a.max, b.max)]

----------------------------------------------------------------------------
(* Series, src/src/lib.rs:169-288 *)

\* a faulty variant: a present value does not become the carried value
FromIteratorStep_no_carry(acc, i, item) ==
    IF item.some
    THEN LET val == item.v
             hi == FLt(acc.max, val)
             lo == FLt(val, acc.min)
         IN  [vals |-> Append(acc.vals, val),
              prev |-> acc.prev,
              max |-> IF hi THEN val ELSE acc.max,
              max_index |-> IF hi THEN i ELSE acc.max_index,
              min |-> IF lo THEN val ELSE acc.min,
              min_index |-> IF lo THEN i ELSE acc.min_index]
    ELSE [acc EXCEPT !.vals = Append(acc.vals, acc.prev)]

\* a faulty variant: filled values take part in the running extremes
FromIteratorStep_range_of_filled(acc, i, item) ==
    LET val == IF item.some THEN item.v ELSE acc.prev
        hi == FLt(acc.max, val)
        lo == FLt(val, acc.min)
    IN  [vals |-> Append(acc.vals, val),
         prev |-> val,
         max |-> IF hi THEN val ELSE acc.max,
         max_index |-> IF hi THEN i ELSE acc.max_index,
         min |-> IF lo THEN val ELSE acc.min,
         min_index |-> IF lo THEN i ELSE acc.min_index]

\* a faulty variant: >= and <=, so a later equal value moves the index
FromIteratorStep_last_index(acc, i, item) ==
    IF item.some
    THEN LET val == item.v
             hi == FLe(acc.max, val)
             lo == FLe(val, acc.min)
         IN  [vals |-> Append(acc.vals, val),
              prev |-> val,
              max |-> IF hi THEN val ELSE acc.max,
              max_index |-> IF hi THEN i ELSE acc.max_index,
              min |-> IF lo THEN val ELSE acc.min,
              min_index |-> IF lo THEN i ELSE acc.min_index]
    ELSE [acc EXCEPT !.vals = Append(acc.vals, acc.prev)]

\* one iteration of the loop of from_iterator: item is the i-th item (from 0)
FromIteratorStep(acc, i, item) ==
    IF item.some
    THEN LET val == item.v
             hi == FLt(acc.max, val)          \* val > max
             lo == FLt(val, acc.min)          \* val < min
         IN  [vals |-> Append(acc.vals, val),
              prev |-> val,
              max |-> IF hi THEN val ELSE acc.max,
              max_index |-> IF hi THEN i ELSE acc.max_index,
              min |-> IF lo THEN val ELSE acc.min,
              min_index |-> IF lo THEN i ELSE acc.min_index]
    ELSE [acc EXCEPT !.vals = Append(acc.vals, acc.prev)]

\* the locals of from_iterator before its loop
\* a faulty variant: the running extremes start at 0.0
FromIteratorInit_zero_extremes ==
    [vals |-> <<>>, prev |-> F(0), max |-> F(0), min |-> F(0),
     max_index |-> 0, min_index |-> 0]

FromIteratorInit ==
    [vals |-> <<>>, prev |-> F(0), max |-> F64_MIN, min |-> F64_MAX,
     max_index |-> 0, min_index |-> 0]

\* the iterations lo .. hi-1 of the loop, in order, from the locals acc
\* (split in halves, the first half evaluated first: see Evaluated)
RECURSIVE FromIteratorLoop(_, _, _, _)
FromIteratorLoop(iter, lo, hi, acc) ==
    IF hi <= lo THEN acc
    ELSE IF hi = lo + 1 THEN FromIteratorStep(acc, lo, iter[lo + 1])
    ELSE LET mid == (lo + hi) \div 2
             left == FromIteratorLoop(iter, lo, mid, acc)
         IN  IF Evaluated(left) THEN FromIteratorLoop(iter, mid, hi, left) ELSE left

from_iterator(iter) ==
    LET acc == FromIteratorLoop(iter, 0, Len(iter), FromIteratorInit)
    IN  [vals |-> acc.vals,
         rng |-> Range_new(acc.min, acc.max),
         min_index |-> acc.min_index,
         max_index |-> acc.max_index]

----------------------------------------------------------------------------
(* Calendar, src/src/time.rs.  A NaiveDate is [y, o]: year and 1-based     *)
(* day of the year, under the Gregorian leap-year rule chrono implements.  *)

IsLeap(y) == (y % 4 = 0 /\ y % 100 # 0) \/ y % 400 = 0

DaysInYear(y) == IF IsLeap(y) THEN 366 ELSE 365

from_yo(y, o) == [y |-> y, o |-> o]

Year_from_ordinal(ord) == [start |-> from_yo(ord, 1)]

Year_end(self) == from_yo(self.start.y + 1, 1)

Day_new(t) == [t |-> t]

Day_ordinal(self) == self.t.o

\* t + Duration::days(1)
Day_next(self) ==
    IF self.t.o < DaysInYear(self.t.y)
    THEN Day_new(from_yo(self.t.y, self.t.o + 1))
    ELSE Day_new(from_yo(self.t.y + 1, 1))

\* a faulty variant: the iterator ends at the last day of the year
Year_days_to_last_day(self) ==
    [cur |-> Day_new(self.start),
     end |-> Day_new(from_yo(self.start.y, DaysInYear(self.start.y)))]

Year_days(self) == [cur |-> Day_new(self.start), end |-> Day_new(Year_end(self))]

\* DaysIter::next: the iterator after the call and the item it returned
DaysIter_next(self) ==
    IF self.cur.t # self.end.t
    THEN [it |-> [self EXCEPT !.cur = Day_next(self.cur)], item |-> <<self.cur>>]
    ELSE [it |-> self, item |-> <<>>]

\* n calls of next(): the iterator after them and the Days they returned
\* (split in halves, the first half evaluated first: see Evaluated)
RECURSIVE DaysIter_take(_, _)
DaysIter_take(it, n) ==
    IF n = 0 THEN [it |-> it, items |-> <<>>]
    ELSE IF n = 1 THEN LET r == DaysIter_next(it) IN [it |-> r.it, items |-> r.item]
    ELSE LET a == DaysIter_take(it, n \div 2)
             b == DaysIter_take(a.it, n - n \div 2)
         IN  IF Evaluated(a) /\ Evaluated(b)
             THEN [it |-> b.it, items |-> a.items \o b.items]
             ELSE a

\* the Days a DaysIter yields when it is run to its end
DaysIter_collect(it) == DaysIter_take(it, MaxDays).items

\* chrono's calendar: the lengths of the months of year y
MonthLengths(y) ==
    <<31, IF IsLeap(y) THEN 29 ELSE 28, 31, 30, 31, 30, 31, 31, 30, 31, 30, 31>>

\* the days of year y before its month m
RECURSIVE DaysBefore(_, _)
DaysBefore(y, m) ==
    IF m <= 1 THEN 0 ELSE DaysBefore(y, m - 1) + MonthLengths(y)[m - 1]

\* NaiveDate::from_ymd_opt(y, m, d).unwrap(), for a date that exists
from_ymd(y, m, d) == from_yo(y, DaysBefore(y, m) + d)

\* NaiveDate::month and NaiveDate::day
NaiveDate_month(t) ==
    CHOOSE m \in 1..12 :
        DaysBefore(t.y, m) < t.o /\ t.o <= DaysBefore(t.y, m) + MonthLengths(t.y)[m]

NaiveDate_day(t) == t.o - DaysBefore(t.y, NaiveDate_month(t))

\* b.signed_duration_since(a).num_days(), for a no later than b and at most
\* one new year between them
DaysSince(b, a) ==
    IF a.y = b.y THEN b.o - a.o ELSE DaysInYear(a.y) - a.o + b.o

Year_duration(self) == DaysSince(Year_end(self), self.start)

Month_from_start(start) == [start |-> start]

\* a faulty variant: the month after December is sought in the same year
Month_end_same_year(self) ==
    LET start == self.start
    IN  from_ymd(start.y,
                 IF NaiveDate_month(start) = 12 THEN 1 ELSE NaiveDate_month(start) + 1,
                 1)

Month_end(self) ==
    LET start == self.start
    IN  from_ymd(IF NaiveDate_month(start) = 12 THEN start.y + 1 ELSE start.y,
                 IF NaiveDate_month(start) = 12 THEN 1 ELSE NaiveDate_month(start) + 1,
                 1)

Month_duration(self) == DaysSince(Month_end(self), self.start)

Month_next(self) == Month_from_start(Month_end(self))

Year_months(self) ==
    [cur |-> Month_from_start(self.start), end |-> Month_from_start(Year_end(self))]

\* MonthsIter::next: the iterator after the call and the item it returned
MonthsIter_next(self) ==
    IF self.cur.start # self.end.start
    THEN [it |-> [self EXCEPT !.cur = Month_next(self.cur)], item |-> <<self.cur>>]
    ELSE [it |-> self, item |-> <<>>]

----------------------------------------------------------------------------
(* Series, continued *)

\* a gsod::Day, reduced to its date and the one metric the closure reads
GsodDay(date, metric) == [date |-> date, metric |-> metric]

\* the closures render.rs passes as f: "map" hands the optional metric on,
\* "or_zero" replaces a missing metric by Some(0.0)
Extract(f, day) ==
    IF f = "or_zero" /\ ~day.metric.some THEN Some(F(0)) ELSE day.metric

\* idx after the insert loop: a later record of the same ordinal overwrites
RECURSIVE IdxInsertAll(_, _, _)
IdxInsertAll(days, i, idx) ==
    IF i > Len(days) THEN idx
    ELSE IdxInsertAll(days, i + 1, (days[i].date.o :> days[i]) @@ idx)

\* a faulty variant: the day's 0-based ordinal is looked up
for_each_day_ordinal0(year, days, f) ==
    LET idx == IdxInsertAll(days, 1, <<>>)
        ds == DaysIter_collect(Year_days(year))
    IN  from_iterator([k \in 1..Len(ds) |->
            IF Day_ordinal(ds[k]) - 1 \in DOMAIN idx
            THEN Extract(f, idx[Day_ordinal(ds[k]) - 1])
            ELSE None])

for_each_day(year, days, f) ==
    LET idx == IdxInsertAll(days, 1, <<>>)
        ds == DaysIter_collect(Year_days(year))
    IN  from_iterator([k \in 1..Len(ds) |->
            IF Day_ordinal(ds[k]) \in DOMAIN idx
            THEN Extract(f, idx[Day_ordinal(ds[k])])
            ELSE None])

\* a faulty variant: the receiver's Range is kept
with_range_keep(self, r) == self

with_range(self, r) ==
    [vals |-> self.vals, rng |-> r,
     min_index |-> self.min_index, max_index |-> self.max_index]

\* Rust's % and / on isize truncate toward zero
Rem(a, n) == IF a >= 0 THEN a % n ELSE -((-a) % n)

TruncDiv(a, n) == IF a >= 0 THEN a \div n ELSE -((-a) \div n)

\* a faulty variant: the truncating remainder alone, its sign dropped
Series_get_truncating(self, i) ==
    LET n == Len(self.vals)
    IN  self.vals[Abs(Rem(i, n)) + 1]

Series_get(self, i) ==
    LET n == Len(self.vals)
    IN  self.vals[((Rem(i, n) + n) % n) + 1]

get_normalized(self, i) == Range_normalize(self.rng, Series_get(self, i))

\* the closures render.rs passes as agg, applied to one block
RECURSIVE Fold(_, _, _, _)
Fold(agg, vals, i, acc) ==
    IF i > Len(vals) THEN acc
    ELSE Fold(agg, vals, i + 1,
              CASE agg = "min" -> FMin(acc, vals[i])
                [] agg = "max" -> FMax(acc, vals[i])
                [] OTHER -> FAdd(acc, vals[i]))

Agg(agg, vals) ==
    CASE agg = "min" -> Fold(agg, vals, 1, F64_MAX)
      [] agg = "max" -> Fold(agg, vals, 1, F64_MIN)
      [] OTHER -> FDiv(Fold(agg, vals, 1, F(0)), F(Len(vals)))

\* one iteration of the loop of downsample_by: acc.vals are the values pushed
\* so far, acc.blocks the slices [j, j + n) handed to agg so far
DownsampleStep(self, n, agg, i, acc) ==
    LET j == i * n
    IN  [vals |-> Append(acc.vals, Agg(agg, SubSeq(self.vals, j + 1, j + n))),
         blocks |-> Append(acc.blocks, <<j, j + n>>)]

\* the iterations lo .. hi-1 of the loop, in order
RECURSIVE DownsampleLoop(_, _, _, _, _, _)
DownsampleLoop(self, n, agg, lo, hi, acc) ==
    IF hi <= lo THEN acc
    ELSE IF hi = lo + 1 THEN DownsampleStep(self, n, agg, lo, acc)
    ELSE LET mid == (lo + hi) \div 2
             left == DownsampleLoop(self, n, agg, lo, mid, acc)
         IN  IF Evaluated(left) THEN DownsampleLoop(self, n, agg, mid, hi, left) ELSE left

\* a faulty variant: the tail remainder is aggregated as one more, short block
DownsampleRun_keep_tail(self, n, agg) ==
    LET len == Len(self.vals)
        m == (len + n - 1) \div n
        hi(i) == IF (i + 1) * n < len THEN (i + 1) * n ELSE len
    IN  [vals |-> [i \in 1..m |-> Agg(agg, SubSeq(self.vals, (i - 1) * n + 1, hi(i - 1)))],
         blocks |-> [i \in 1..m |-> <<(i - 1) * n, hi(i - 1)>>]]

DownsampleRun(self, n, agg) ==
    LET m == Len(self.vals) \div n
    IN  DownsampleLoop(self, n, agg, 0, m, [vals |-> <<>>, blocks |-> <<>>])

\* a faulty variant: the extremum indices are recomputed from the new values
downsample_by_recomputed(self, n, agg) ==
    LET vals == DownsampleRun(self, n, agg).vals
        s == from_iterator([i \in 1..Len(vals) |-> Some(vals[i])])
    IN  [vals |-> vals, rng |-> self.rng,
         min_index |-> s.min_index, max_index |-> s.max_index]

downsample_by(self, n, agg) ==
    [vals |-> DownsampleRun(self, n, agg).vals,
     rng |-> self.rng,
     min_index |-> TruncDiv(self.min_index, n),
     max_index |-> TruncDiv(self.max_index, n)]

----------------------------------------------------------------------------
(* Scale, src/src/lib.rs:290-346 *)

\* one turn of the while loop of from_range_with_step: a push, or the exit
StepsTurn(st, max, step) ==
    IF st.done THEN st
    ELSE IF FLt(st.min, max)
    THEN [min |-> FAdd(st.min, step), steps |-> Append(st.steps, st.min),
          done |-> FALSE]
    ELSE [st EXCEPT !.done = TRUE]

\* n turns of the loop
RECURSIVE StepsLoop(_, _, _, _)
StepsLoop(st, max, step, n) ==
    IF n = 0 THEN st
    ELSE IF n = 1 THEN StepsTurn(st, max, step)
    ELSE LET left == StepsLoop(st, max, step, n \div 2)
         IN  IF Evaluated(left) THEN StepsLoop(left, max, step, n - n \div 2)
             ELSE left

\* the Scale made when the loop ends; a loop that has not ended after
\* MaxTicks pushes is reported as still running
StepsFrom(min, max, step) ==
    LET st == StepsLoop([min |-> min, steps |-> <<>>, done |-> FALSE],
                        max, step, MaxTicks + 1)
    IN  IF st.done THEN [kind |-> "Scale", step |-> step, steps |-> st.steps]
        ELSE [kind |-> "running", steps |-> st.steps]

\* a faulty variant: the loop starts at the multiple at or below r.min
Scale_from_range_with_step_from_floor(r, step) ==
    LET min == FMul(FFloor(FDiv(r.min, step)), step)
    IN  StepsFrom(min, r.max, step)

Scale_from_range_with_step(r, step) ==
    LET min == FAdd(FMul(FFloor(FDiv(r.min, step)), step), step)
    IN  StepsFrom(min, r.max, step)

facs == <<1, 2, 3, 5, 10, 20, 30, 50>>

\* a faulty variant: a step with width / step = lim is taken
RECURSIVE FacsLoop_accept_equal(_, _, _, _, _)
FacsLoop_accept_equal(r, lim, width, mag, k) ==
    IF k > Len(facs) THEN Panic
    ELSE LET step == FMul(F(facs[k]), mag)
             n == FDiv(width, step)
         IN  IF FLe(n, lim) THEN Scale_from_range_with_step(r, step)
             ELSE FacsLoop_accept_equal(r, lim, width, mag, k + 1)

\* the for loop of from_range from the k-th factor on; panic!("unreachable")
\* when the factors are used up
RECURSIVE FacsLoop(_, _, _, _, _)
FacsLoop(r, lim, width, mag, k) ==
    IF k > Len(facs) THEN Panic
    ELSE LET step == FMul(F(facs[k]), mag)
             n == FDiv(width, step)
         IN  IF FLt(n, lim) THEN Scale_from_range_with_step(r, step)
             ELSE FacsLoop(r, lim, width, mag, k + 1)

\* floor(log10(w) - 1) = floor(log10(w)) - 1
Scale_from_range(r, lim) ==
    LET width == FSub(r.max, r.min)
        mag == Pow10(FSub(Log10Floor(width), F(1)))
    IN  FacsLoop(r, lim, width, mag, 1)

\* stand-ins for usize::MAX and i32::MAX, where the casts saturate
USIZE_MAX == 2147483647

I32_MAX == 2147483647

\* a as an integer type with the bounds lo..hi: the fraction is cut off, a
\* value out of bounds becomes the nearer bound, NaN becomes 0
AsInt(a, lo, hi) ==
    IF IsNaN(a) THEN 0
    ELSE IF a.d = 0 THEN (IF a.n > 0 THEN hi ELSE lo)
    ELSE LET t == Sign(a.n) * (Abs(a.n) \div a.d)
         IN  IF t < lo THEN lo ELSE IF t > hi THEN hi ELSE t

\* the integer nearest to a finite a, the even one of two equally near
RoundHalfEven(a) ==
    LET q == a.n \div a.d
        r2 == 2 * (a.n - q * a.d)
    IN  IF r2 < a.d THEN q
        ELSE IF r2 > a.d THEN q + 1
        ELSE IF q % 2 = 0 THEN q ELSE q + 1

\* a decimal numeral: units / 10^places, written with places decimals
Numeral(units, places) == [units |-> units, places |-> places]

\* format!("{}", i) of an integer
FormatInt(i) == Numeral(i, 0)

\* format!("{0:.1$}", s, p): s rounded to p decimals.  10^p is only formed
\* for a non-zero s, whose p is small.
FormatFixed(s, p) ==
    IF s.d = 0 THEN [units |-> s, places |-> 0]
    ELSE IF s.n = 0 THEN Numeral(0, p)
    ELSE Numeral(RoundHalfEven(FMul(s, Pow10(F(p)))), p)

\* i is 0-based as in the source; the println! is left out
label_for(self, i) ==
    LET s == self.steps[i + 1]
    IN  IF FLe(F(1), self.step) THEN FormatInt(AsInt(s, -I32_MAX - 1, I32_MAX))
        ELSE LET p == AsInt(FAbs(Log10Floor(s)), 0, USIZE_MAX)
             IN  FormatFixed(s, p)

----------------------------------------------------------------------------
(* The charts, src/src/render.rs.  Of the drawing only the calls into      *)
(* lib.rs are kept: which Scale is made, which Ranges normalize values,    *)
(* which Series are drawn and which texts are shown.  The accessors        *)
(* in_fahrenheit, in_knots and in_inches return the stored f64 as it is.   *)

\* a gsod::Day with the six metrics the charts read
StationDay(date, min_t, max_t, mean_t, mean_w, max_w, prcp) ==
    [date |-> date, min_temperature |-> min_t, max_temperature |-> max_t,
     mean_temperature |-> mean_t, mean_wind |-> mean_w,
     max_sustained_wind |-> max_w, precipitation |-> prcp]

\* station.days() as the closure of one metric sees them
DaysOf(station, metric) ==
    [i \in 1..Len(station.days) |->
        GsodDay(station.days[i].date, station.days[i][metric])]

\* vals.iter().fold(0.0, |sum, val| sum + val) over the positions lo+1 .. hi
\* (split in halves, the first half evaluated first: see Evaluated)
RECURSIVE SumLoop(_, _, _, _)
SumLoop(vals, lo, hi, sum) ==
    IF hi <= lo THEN sum
    ELSE IF hi = lo + 1 THEN FAdd(sum, vals[hi])
    ELSE LET mid == (lo + hi) \div 2
             left == SumLoop(vals, lo, mid, sum)
         IN  IF Evaluated(left) THEN SumLoop(vals, mid, hi, left) ELSE left

Sum(vals) == SumLoop(vals, 0, Len(vals), F(0))

\* the fold of render_precipitation that counts the values above 0.0
RECURSIVE CountLoop(_, _, _, _)
CountLoop(vals, lo, hi, sum) ==
    IF hi <= lo THEN sum
    ELSE IF hi = lo + 1 THEN (IF FLt(F(0), vals[hi]) THEN sum + 1 ELSE sum)
    ELSE LET mid == (lo + hi) \div 2
             left == CountLoop(vals, lo, mid, sum)
         IN  IF Evaluated(left) THEN CountLoop(vals, mid, hi, left) ELSE left

\* the mean of all values of a Series, as the charts compute it
MeanOfValues(self) == FDiv(Sum(self.vals), F(Len(self.vals)))

\* a faulty variant: the downsampled Series gets the Range of its own values
Downsampled_own_range(self, opts, agg) ==
    IF opts.downsample_by > 1
    THEN LET d == downsample_by(self, opts.downsample_by, agg)
         IN  [d EXCEPT !.rng = from_iterator([i \in 1..Len(d.vals) |-> Some(d.vals[i])]).rng]
    ELSE self

\* if opts.downsample_by > 1 { s.downsample_by(.., agg) } else { s }
Downsampled(self, opts, agg) ==
    IF opts.downsample_by > 1 THEN downsample_by(self, opts.downsample_by, agg)
    ELSE self

\* one call into lib.rs that puts a Range to use
Use(fn, r) == [fn |-> fn, range |-> r]

\* from the making of the Scale to the center text: the Scale is made from
\* range with the limit lim (which may panic), render_scales takes the
\* first tick (which panics when there is none) and normalizes the ticks in
\* range, then the Series of drawn are drawn through get_normalized and the
\* texts are shown
Draw(range, lim, drawn, texts) ==
    LET made == Scale_from_range(range, lim)
    IN  IF made.kind # "Scale" \/ made.steps = <<>>
        THEN [outcome |-> "panic", scale |-> made,
              uses |-> <<Use("from_range", range)>>, shown |-> <<>>]
        ELSE [outcome |-> "drawn", scale |-> made,
              uses |-> <<Use("from_range", range), Use("normalize", range)>>
                       \o [i \in 1..Len(drawn) |-> Use("get_normalized", drawn[i].rng)],
              shown |-> texts]

render_temperature(year, station, opts) ==
    LET min_temps0 == for_each_day(year, DaysOf(station, "min_temperature"), "map")
        max_temps0 == for_each_day(year, DaysOf(station, "max_temperature"), "map")
        mean_temps0 == for_each_day(year, DaysOf(station, "mean_temperature"), "map")
        range0 == Range_intersect(max_temps0.rng, min_temps0.rng)
        min_temps1 == with_range(min_temps0, range0)
        max_temps1 == with_range(max_temps0, range0)
        mean_temps1 == with_range(mean_temps0, range0)
        avg_mean_temp == MeanOfValues(mean_temps1)
        min_temps == Downsampled(min_temps1, opts, "min")
        max_temps == Downsampled(max_temps1, opts, "max")
        mean_temps == Downsampled(mean_temps1, opts, "mean")
        range == min_temps.rng
    IN  [kind |-> "temperature", range |-> range,
         band |-> <<min_temps, max_temps>>, line |-> <<mean_temps>>,
         avg |-> avg_mean_temp,
         draw |-> Draw(range, F(5), <<max_temps, min_temps, mean_temps>>,
                       [MAX |-> FormatFixed(range.max, 1),
                        AVG |-> FormatFixed(avg_mean_temp, 1),
                        MIN |-> FormatFixed(range.min, 1)])]

\* a faulty variant: the average is taken after the downsampling
render_wind_avg_of_drawn(year, station, opts) ==
    LET mean_wind0 == for_each_day(year, DaysOf(station, "mean_wind"), "map")
        max_sustained_wind0 == for_each_day(year, DaysOf(station, "max_sustained_wind"), "map")
        range == Range_intersect(mean_wind0.rng, max_sustained_wind0.rng)
        mean_wind1 == with_range(mean_wind0, range)
        max_sustained_wind1 == with_range(max_sustained_wind0, range)
        mean_wind == Downsampled(mean_wind1, opts, "mean")
        max_sustained_wind == Downsampled(max_sustained_wind1, opts, "max")
        avg_mean_wind == MeanOfValues(mean_wind)
    IN  [kind |-> "wind", range |-> range,
         band |-> <<mean_wind, max_sustained_wind>>, line |-> <<>>,
         avg |-> avg_mean_wind,
         draw |-> Draw(range, F(5), <<max_sustained_wind, mean_wind>>,
                       [MAX |-> FormatFixed(range.max, 1),
                        AVG |-> FormatFixed(avg_mean_wind, 1)])]

render_wind(year, station, opts) ==
    LET mean_wind0 == for_each_day(year, DaysOf(station, "mean_wind"), "map")
        max_sustained_wind0 == for_each_day(year, DaysOf(station, "max_sustained_wind"), "map")
        range == Range_intersect(mean_wind0.rng, max_sustained_wind0.rng)
        mean_wind1 == with_range(mean_wind0, range)
        max_sustained_wind1 == with_range(max_sustained_wind0, range)
        avg_mean_wind == MeanOfValues(mean_wind1)
        mean_wind == Downsampled(mean_wind1, opts, "mean")
        max_sustained_wind == Downsampled(max_sustained_wind1, opts, "max")
    IN  [kind |-> "wind", range |-> range,
         band |-> <<mean_wind, max_sustained_wind>>, line |-> <<>>,
         avg |-> avg_mean_wind,
         draw |-> Draw(range, F(5), <<max_sustained_wind, mean_wind>>,
                       [MAX |-> FormatFixed(range.max, 1),
                        AVG |-> FormatFixed(avg_mean_wind, 1)])]

\* opts.downsample_by is not read: the bars are drawn one per day
render_precipitation(year, station, opts) ==
    LET percipitation == for_each_day(year, DaysOf(station, "precipitation"), "or_zero")
        num_days == CountLoop(percipitation.vals, 0, Len(percipitation.vals), 0)
        total == Sum(percipitation.vals)
    IN  [kind |-> "precipitation", range |-> percipitation.rng,
         band |-> <<>>, line |-> <<percipitation>>,
         num_days |-> num_days, total |-> total,
         draw |-> Draw(percipitation.rng, F(4), <<percipitation>>,
                       [DAYS |-> FormatInt(num_days),
                        TOTAL |-> FormatFixed(total, 1)])]

----------------------------------------------------------------------------
(* Drawing, src/src/render.rs.  The cairo Context is the sequence of the   *)
(* calls made on it.  Angles are counted in turns, so the full turn TAU    *)
(* is 1; as in cairo an angle is measured from the positive x axis towards *)
(* the positive y axis, which points down: -TAU/4 is the top of a circle   *)
(* around the origin.  The point (r * t.cos(), r * t.sin()) is kept as the *)
(* pair of r and t.  Lengths that come from font metrics or from a square  *)
(* root are kept as terms.                                                 *)

TAU == F(1)

Polar(r, t) == [r |-> r, t |-> t]

\* the chord sqrt(dx * dx + dy * dy) of the arc of t at radius r
distance_across_arc(r, t) == [chord |-> r, t |-> t]

\* the control point (x + d * c.cos(), y + d * c.sin())
Control(p, d, c) == [p |-> p, d |-> d, c |-> c]

\* what a drawing function has done: the calls it made on the Context, each
\* with the stack of the functions that made it (here the function itself),
\* and whether the function returned Ok(()) or panicked after them
\* Body of v, v being worked out once, before Body
Once(v, Body(_)) == CHOOSE z \in {Body(x) : x \in {v}} : TRUE

\* the calls, each made by the function fn
CalledBy(fn, calls) ==
    Once(calls, LAMBDA cs :
        <<>> \o [i \in 1..Len(cs) |-> [stack |-> <<fn>>, call |-> cs[i]]])

Ok(fn, calls) == [outcome |-> "Ok", calls |-> CalledBy(fn, calls)]

Panicked(fn, calls) == [outcome |-> "panic", calls |-> CalledBy(fn, calls)]

\* a; b? : b runs when a has returned Ok
Then(a, b) ==
    Once(a, LAMBDA fst :
        IF fst.outcome # "Ok" THEN fst
        ELSE Once(b, LAMBDA snd :
                 [outcome |-> snd.outcome, calls |-> fst.calls \o snd.calls]))

\* the function fn has called the function that did a
Under(fn, a) ==
    Once(a, LAMBDA did :
        [outcome |-> did.outcome,
         calls |-> <<>> \o [i \in 1..Len(did.calls) |->
                              [stack |-> <<fn>> \o did.calls[i].stack,
                               call |-> did.calls[i].call]]])

Color_set(color) == [op |-> "set_source", color |-> color]

\* a faulty variant: the segment ends at the radius of the sample it starts
\* from
ForwardSegment_flat(s, rrange, smooth, i) ==
    LET n == Len(s.vals)
        dt == FDiv(TAU, F(n))
        t0 == FDiv(FNeg(TAU), F(4))
        t4 == FDiv(TAU, F(4))
        ta == FAdd(FSub(FMul(F(i), dt), dt), t0)
        tb == FAdd(FMul(F(i), dt), t0)
        ra == Range_project(rrange, get_normalized(s, i - 1))
        da == [len |-> distance_across_arc(ra, dt), times |-> Rat(55, 100)]
    IN  IF smooth
        THEN [op |-> "curve_to",
              c1 |-> Control(Polar(ra, ta), da, FAdd(ta, t4)),
              c2 |-> Control(Polar(ra, tb), da, FSub(tb, t4)),
              to |-> Polar(ra, tb)]
        ELSE [op |-> "line_to", to |-> Polar(ra, tb)]

\* one turn of the forward loop of render_radial_range and of the loop of
\* render_radial_series
ForwardSegment(s, rrange, smooth, i) ==
    LET n == Len(s.vals)
        dt == FDiv(TAU, F(n))
        t0 == FDiv(FNeg(TAU), F(4))
        t4 == FDiv(TAU, F(4))
        ta == FAdd(FSub(FMul(F(i), dt), dt), t0)
        tb == FAdd(FMul(F(i), dt), t0)
        ra == Range_project(rrange, get_normalized(s, i - 1))
        rb == Range_project(rrange, get_normalized(s, i))
        da == [len |-> distance_across_arc(ra, dt), times |-> Rat(55, 100)]
        db == [len |-> distance_across_arc(rb, dt), times |-> Rat(55, 100)]
    IN  IF smooth
        THEN [op |-> "curve_to",
              c1 |-> Control(Polar(ra, ta), da, FAdd(ta, t4)),
              c2 |-> Control(Polar(rb, tb), db, FSub(tb, t4)),
              to |-> Polar(rb, tb)]
        ELSE [op |-> "line_to", to |-> Polar(rb, tb)]

\* one turn of the backward loop of render_radial_range, for the loop
\* variable i of 0..=n
BackwardSegment(s, rrange, smooth, i) ==
    LET n == Len(s.vals)
        dt == FDiv(TAU, F(n))
        t0 == FDiv(FNeg(TAU), F(4))
        t4 == FDiv(TAU, F(4))
        k == n - i - 1
        ta == FAdd(FMul(F(k), dt), t0)
        tb == FAdd(FSub(FMul(F(k), dt), dt), t0)
        ra == Range_project(rrange, get_normalized(s, k))
        rb == Range_project(rrange, get_normalized(s, k - 1))
        da == [len |-> distance_across_arc(ra, dt), times |-> Rat(55, 100)]
        db == [len |-> distance_across_arc(rb, dt), times |-> Rat(55, 100)]
    IN  IF smooth
        THEN [op |-> "curve_to",
              c1 |-> Control(Polar(ra, ta), da, FSub(ta, t4)),
              c2 |-> Control(Polar(rb, tb), db, FAdd(tb, t4)),
              to |-> Polar(rb, tb)]
        ELSE [op |-> "line_to", to |-> Polar(rb, tb)]

\* assert_eq! panics on Series of different lengths; get_normalized(0)
\* panics on an empty Series (i % 0)
render_radial_range(min, max, rrange, fill_color, stroke_color, smooth) ==
    LET n == Len(max.vals)
        dt == FDiv(TAU, F(n))
        t0 == FDiv(FNeg(TAU), F(4))
    IN  IF Len(max.vals) # Len(min.vals) THEN Panicked("render_radial_range", <<>>)
        ELSE IF n = 0 THEN Panicked("render_radial_range", <<[op |-> "new_path"]>>)
        ELSE Ok("render_radial_range",
                <<[op |-> "new_path"],
                  [op |-> "move_to",
                   to |-> Polar(Range_project(rrange, get_normalized(max, 0)), t0)]>>
                \o [i \in 1..n |-> ForwardSegment(max, rrange, smooth, i)]
                \o <<[op |-> "move_to",
                      to |-> Polar(Range_project(rrange, get_normalized(min, n - 1)),
                                   FAdd(FMul(FSub(F(n), F(1)), dt), t0))]>>
                \o [j \in 1..(n + 1) |-> BackwardSegment(min, rrange, smooth, j - 1)]
                \o (IF fill_color.some
                    THEN <<Color_set(fill_color.v), [op |-> "fill_preserve"]>>
                    ELSE <<>>)
                \o (IF stroke_color.some
                    THEN <<Color_set(stroke_color.v), [op |-> "stroke"]>>
                    ELSE <<>>))

render_radial_series(s, rrange, color, smooth) ==
    LET n == Len(s.vals)
        t0 == FDiv(FNeg(TAU), F(4))
    IN  IF n = 0 THEN Panicked("render_radial_series", <<[op |-> "new_path"]>>)
        ELSE Ok("render_radial_series",
                <<[op |-> "new_path"],
                  [op |-> "move_to",
                   to |-> Polar(Range_project(rrange, get_normalized(s, 0)), t0)]>>
                \o [i \in 1..n |-> ForwardSegment(s, rrange, smooth, i)]
                \o <<Color_set(color), [op |-> "stroke"]>>)

\* the Months a MonthsIter yields when it is run to its end
RECURSIVE MonthsIter_collect(_)
MonthsIter_collect(it) ==
    LET r == MonthsIter_next(it)
    IN  IF r.item = <<>> THEN <<>> ELSE r.item \o MonthsIter_collect(r.it)

\* NaiveDate::format("%b")
MonthNames ==
    <<"Jan", "Feb", "Mar", "Apr", "May", "Jun",
      "Jul", "Aug", "Sep", "Oct", "Nov", "Dec">>

\* the text is moved to (-exts.width() / 2, -y + exts.height() / 2): the
\* middle of its extents lies at (0, -y), the point at distance y from the
\* origin at the angle -TAU/4
TextAround(y, name) ==
    [middle |-> Polar(y, FDiv(FNeg(TAU), F(4))), text |-> name]

render_months(year, r) ==
    LET num_days == Year_duration(year)
        ms == MonthsIter_collect(Year_months(year))
        months == [i \in 1..Len(ms) |->
                     [s |-> FDiv(F(DaysSince(ms[i].start, year.start)), F(num_days)),
                      e |-> FDiv(F(DaysSince(Month_end(ms[i]), year.start)), F(num_days))]]
        dt == FDiv(FMul(Rat(1, 2), TAU), F(num_days))
        Wedge(i) ==
            LET s == FAdd(FMul(months[i].s, TAU), dt)
                e == FSub(FMul(months[i].e, TAU), dt)
            IN  <<[op |-> "new_path"],
                  [op |-> "arc", r |-> r.max, from |-> s, to |-> e],
                  [op |-> "arc_negative", r |-> r.min, from |-> e, to |-> s],
                  [op |-> "fill"]>>
        Label(i) ==
            LET s == months[i].s
                e == months[i].e
                y == FDiv(FAdd(r.max, r.min), F(2))
                name == MonthNames[NaiveDate_month(ms[i].start)]
            IN  <<[op |-> "save"],
                  [op |-> "rotate",
                   angle |-> FMul(FAdd(s, FDiv(FSub(e, s), F(2))), TAU)],
                  [op |-> "move_to", to |-> TextAround(y, name)],
                  [op |-> "show_text", text |-> name],
                  [op |-> "restore"]>>
    IN  Ok("render_months",
           <<Color_set("ffffff 0.05")>>
           \o [k \in 1..(4 * Len(ms)) |-> Wedge((k + 3) \div 4)[((k - 1) % 4) + 1]]
           \o <<Color_set("ffffff"), [op |-> "set_font", size |-> 10]>>
           \o [k \in 1..(5 * Len(ms)) |-> Label((k + 4) \div 5)[((k - 1) % 5) + 1]])

\* Font::set: select_font_face and set_font_size
Font_set(font) == [op |-> "set_font", font |-> font]

\* the title is moved to (x - exts.width() / 2, y)
render_title(title, x, y) ==
    Ok("render_title",
       <<[op |-> "save"],
         Font_set("HelveticaNeue-Medium 12"),
         Color_set("ffffff 0.6"),
         [op |-> "new_path"],
         [op |-> "move_to", to |-> [middle_x |-> x, y |-> y, text |-> title]],
         [op |-> "show_text", text |-> title],
         [op |-> "restore"]>>)

\* the name of the station, the year and the details of the station, each
\* at a place that its extents decide
render_header(opts) ==
    LET Text(font, text) ==
            <<Font_set(font), [op |-> "new_path"],
              [op |-> "move_to", to |-> [text |-> text]],
              [op |-> "show_text", text |-> text]>>
        Line(text) ==
            <<[op |-> "move_to", to |-> [left_of |-> text]],
              [op |-> "line_to", to |-> [right_of |-> text]],
              [op |-> "stroke"]>>
    IN  Ok("render_header",
           <<Color_set("ffffff 0.9")>>
           \o Text("HelveticaNeue-Thin 42", "title")
           \o Text("HelveticaNeue 24", "time_desc")
           \o Text("HelveticaNeue 16", "details")
           \o (IF opts.debug
               THEN <<Color_set("ff9900"), [op |-> "set_line_width", width |-> 1]>>
                    \o Line("title") \o Line("details")
               ELSE <<>>))

\* scale.steps().first().unwrap() panics on a Scale without a tick, before
\* anything is drawn; the angle of a tick's arc at the label is an arc sine
render_scales(made, trange, rrange, units, dir) ==
    IF made.steps = <<>> THEN Panicked("render_scales", <<>>)
    ELSE LET tb == FMul(TAU, Rat(3, 4))
             y == FAdd(FNeg(Range_project(rrange, Range_normalize(trange, made.steps[1]))),
                       F(10))
             Tick(i) ==
                 LET r == Range_project(rrange, Range_normalize(trange, made.steps[i]))
                     label == [label |-> label_for(made, i - 1), units |-> units]
                 IN  <<[op |-> "save"],
                       [op |-> "new_path"],
                       IF dir = "Right"
                       THEN [op |-> "arc", r |-> r,
                             from |-> [asin |-> FDiv(y, r)], to |-> tb]
                       ELSE [op |-> "arc_negative", r |-> r,
                             from |-> [pi_minus_asin |-> FDiv(y, r)], to |-> tb],
                       [op |-> "line_to",
                        to |-> [from |-> Polar(r, tb),
                                dx |-> IF dir = "Right" THEN rrange.max
                                       ELSE FNeg(rrange.max)]],
                       [op |-> "stroke"],
                       [op |-> "restore"],
                       [op |-> "save"],
                       [op |-> "move_to", to |-> [beside |-> Polar(r, tb), text |-> label]],
                       [op |-> "show_text", text |-> label],
                       [op |-> "restore"]>>
         IN  Ok("render_scales",
                <<[op |-> "set_dash"], Color_set("ffffff 0.6"), Font_set("HelveticaNeue 10")>>
                \o [k \in 1..(10 * Len(made.steps)) |->
                      Tick((k + 9) \div 10)[((k - 1) % 10) + 1]])

\* a faulty variant: the Context saved at the start is not restored
render_center_text_unrestored(labels, opts) ==
    LET Row(i, column) ==
            <<[op |-> "new_path"],
              [op |-> "move_to", to |-> [row |-> i - 1, text |-> labels[i][column]]],
              [op |-> "show_text", text |-> labels[i][column]]>>
        n == Len(labels)
    IN  Ok("render_center_text",
           <<[op |-> "save"], Color_set("ffffff 0.6"),
             Font_set("value_font"), Font_set("label_font"),
             Font_set("value_font"), Font_set("value_font")>>
           \o [k \in 1..(3 * n) |-> Row((k + 2) \div 3, 2)[((k - 1) % 3) + 1]]
           \o <<Font_set("label_font")>>
           \o [k \in 1..(3 * n) |-> Row((k + 2) \div 3, 1)[((k - 1) % 3) + 1]])

\* labels are pairs of a key and a value; the values are shown first, one
\* below the other, then the keys
render_center_text(labels, opts) ==
    LET Row(i, column) ==
            <<[op |-> "new_path"],
              [op |-> "move_to", to |-> [row |-> i - 1, text |-> labels[i][column]]],
              [op |-> "show_text", text |-> labels[i][column]]>>
        n == Len(labels)
    IN  Ok("render_center_text",
           <<[op |-> "save"], Color_set("ffffff 0.6"),
             Font_set("value_font"), Font_set("label_font"),
             Font_set("value_font"), Font_set("value_font")>>
           \o [k \in 1..(3 * n) |-> Row((k + 2) \div 3, 2)[((k - 1) % 3) + 1]]
           \o <<Font_set("label_font")>>
           \o [k \in 1..(3 * n) |-> Row((k + 2) \div 3, 1)[((k - 1) % 3) + 1]]
           \o (IF opts.debug
               THEN <<Color_set("ff9900 0.1"), [op |-> "new_path"],
                      [op |-> "rectangle"], [op |-> "fill"]>>
               ELSE <<>>)
           \o <<[op |-> "restore"]>>)

\* ctx.save()?; a; ctx.restore()?; in the function fn, where a is what a
\* function called by fn does
Saved(fn, a) ==
    Then(Ok(fn, <<[op |-> "save"]>>),
         Then(Under(fn, a), Ok(fn, <<[op |-> "restore"]>>)))

\* the Range in which the charts put the months
MonthsBand(rrange) == Range_new(FSub(rrange.min, F(40)), FSub(rrange.min, F(5)))

\* Scale::from_range has panicked, or render_scales draws the Scale
ScalesOf(made, trange, rrange, units) ==
    IF made.kind # "Scale" THEN Panicked("from_range", <<>>)
    ELSE render_scales(made, trange, rrange, units, "Left")

\* a faulty variant: the curves are drawn before the scales
render_temperature_calls_curves_first(c, year, rrange, opts) ==
    LET fn == "render_temperature"
    IN  Then(Saved(fn, render_months(year, MonthsBand(rrange))),
        Then(Saved(fn, render_radial_range(c.band[1], c.band[2], rrange,
                                           Some("6eb078 0.1"), Some("6eb078"),
                                           opts.smooth)),
        Then(Saved(fn, ScalesOf(c.draw.scale, c.range, rrange, "degF")),
        Then(Saved(fn, render_radial_series(c.line[1], rrange, "e45f91", opts.smooth)),
             Saved(fn, render_center_text(<<<<"MAX", c.draw.shown.MAX>>,
                                            <<"AVG", c.draw.shown.AVG>>,
                                            <<"MIN", c.draw.shown.MIN>>>>, opts))))))

\* what render_temperature draws, c being what it has computed
render_temperature_calls(c, year, rrange, opts) ==
    LET fn == "render_temperature"
    IN  Then(Saved(fn, render_months(year, MonthsBand(rrange))),
        Then(Saved(fn, ScalesOf(c.draw.scale, c.range, rrange, "degF")),
        Then(Saved(fn, render_radial_range(c.band[1], c.band[2], rrange,
                                           Some("6eb078 0.1"), Some("6eb078"),
                                           opts.smooth)),
        Then(Saved(fn, render_radial_series(c.line[1], rrange, "e45f91", opts.smooth)),
             Saved(fn, render_center_text(<<<<"MAX", c.draw.shown.MAX>>,
                                            <<"AVG", c.draw.shown.AVG>>,
                                            <<"MIN", c.draw.shown.MIN>>>>, opts))))))

\* what render_wind draws, c being what it has computed
render_wind_calls(c, year, rrange, opts) ==
    LET fn == "render_wind"
    IN  Then(Saved(fn, render_months(year, MonthsBand(rrange))),
        Then(Saved(fn, ScalesOf(c.draw.scale, c.range, rrange, " kts")),
        Then(Saved(fn, render_radial_range(c.band[1], c.band[2], rrange,
                                           Some("9f83c3 0.1"), Some("9f83c3"),
                                           opts.smooth)),
             Saved(fn, render_center_text(<<<<"MAX", c.draw.shown.MAX>>,
                                            <<"AVG", c.draw.shown.AVG>>>>, opts)))))

\* what render_precipitation draws, c being what it has computed: the Scale
\* is made before the save, and one bar is drawn per day, from the radius
\* of 0 to the radius of the day's value
render_precipitation_calls(c, year, rrange, opts) ==
    LET fn == "render_precipitation"
        percipitation == c.line[1]
        n == Len(percipitation.vals)
        dt == FDiv(TAU, F(n))
        t0 == FDiv(FNeg(TAU), F(4))
        ra == Range_project(rrange, Unit_zero)
        Bar(i) ==
            LET t == FAdd(FMul(F(i), dt), t0)
                rb == Range_project(rrange, get_normalized(percipitation, i))
            IN  <<[op |-> "move_to", to |-> Polar(ra, t)],
                  [op |-> "line_to", to |-> Polar(rb, t)]>>
    IN  Then(Saved(fn, render_months(year, MonthsBand(rrange))),
        Then(IF c.draw.scale.kind # "Scale" THEN Panicked(fn, <<>>) ELSE Ok(fn, <<>>),
        Then(Saved(fn, render_scales(c.draw.scale, c.range, rrange, " in", "Left")),
        Then(Ok(fn, <<[op |-> "save"], Color_set("2fcbcc"), [op |-> "new_path"]>>
                    \o [k \in 1..(2 * n) |-> Bar((k - 1) \div 2)[((k - 1) % 2) + 1]]
                    \o <<[op |-> "stroke"], [op |-> "restore"]>>),
             Saved(fn, render_center_text(<<<<"DAYS", c.draw.shown.DAYS>>,
                                            <<"TOTAL", c.draw.shown.TOTAL>>>>, opts))))))

\* render up to its first chart: the background, the header and, with
\* --debug, the shading of the first and the third column and of the header
render_start(opts) ==
    LET shade == <<[op |-> "new_path"], [op |-> "rectangle"], [op |-> "fill"]>>
    IN  Then(Ok("render",
                <<Color_set("3b3938"), [op |-> "rectangle"], [op |-> "fill"]>>
                \o (IF opts.debug
                    THEN <<[op |-> "save"], Color_set("ffffff 0.2")>>
                         \o shade \o shade \o <<[op |-> "restore"]>>
                    ELSE <<>>)),
        Then(Saved("render", render_header(opts)),
             Ok("render",
                IF opts.debug
                THEN <<[op |-> "save"], Color_set("ffffff 0.2")>>
                     \o shade \o <<[op |-> "restore"]>>
                ELSE <<>>)))

\* one chart of render: the frame is moved to the middle of the chart, at x
\* sixths of the width, the title is shown, and a, the chart, is drawn
render_chart(title, x, rrange, a) ==
    Then(Ok("render", <<[op |-> "save"], [op |-> "translate", x |-> Rat(x, 6)]>>),
    Then(Under("render", render_title(title, F(0), FSub(FNeg(rrange.max), F(10)))),
    Then(Under("render", a),
         Ok("render", <<[op |-> "restore"]>>))))

----------------------------------------------------------------------------
(* Data, src/src/lib.rs:17-45.  A destination of the data directory holds  *)
(* no file, or a file with what was written to it.                         *)

Absent == [exists |-> FALSE]

File(content) == [exists |-> TRUE, content |-> content]

\* download_and_open(url, dst) when the fetch, if there is one, goes as net
\* says: the files after the call, whether the URL was requested, and what
\* is returned.  reqwest::blocking::get(url)? comes first and fails without
\* a response ("no_response"); it returns Ok for a response of any status,
\* so the body of an error response ("error_status") is copied like that
\* of the archive ("archive"); fs::File::create(&dst)? makes the file, and
\* empties it, before copy_to starts, so a body that breaks off leaves what
\* was copied until then: nothing ("no_body") or a part ("broken_body")
download_and_open(fs, dst, net) ==
    IF fs[dst].exists
    THEN [files |-> fs, requested |-> FALSE,
          ret |-> [kind |-> "Ok", opened |-> fs[dst].content]]
    ELSE CASE net = "no_response" ->
                [files |-> fs, requested |-> TRUE, ret |-> [kind |-> "Err"]]
           [] net = "no_body" ->
                [files |-> [fs EXCEPT ![dst] = File("empty")], requested |-> TRUE,
                 ret |-> [kind |-> "Err"]]
           [] net = "broken_body" ->
                [files |-> [fs EXCEPT ![dst] = File("part of the archive")],
                 requested |-> TRUE, ret |-> [kind |-> "Err"]]
           [] net = "error_status" ->
                [files |-> [fs EXCEPT ![dst] = File("error page")], requested |-> TRUE,
                 ret |-> [kind |-> "Ok", opened |-> "error page"]]
           [] net = "archive" ->
                [files |-> [fs EXCEPT ![dst] = File("archive")], requested |-> TRUE,
                 ret |-> [kind |-> "Ok", opened |-> "archive"]]

----------------------------------------------------------------------------
(* Inputs *)

\* measurements an iterator yields; 0 is also the value carried before any
Vals == {F(-1), F(0), F(1), F(2)}

Items == {None} \cup {Some(v) : v \in Vals}

Iters == UNION {[1..n -> Items] : n \in 0..MaxLen}

Years == {2023, 2024}

\* day records of one station-year: on its first, third and last day, with
\* and without the metric, two of them on the same day
GsodDays(y) ==
    {GsodDay(from_yo(y, 1), Some(F(50))), GsodDay(from_yo(y, 1), None),
     GsodDay(from_yo(y, 3), Some(F(40))), GsodDay(from_yo(y, 3), Some(F(50))),
     GsodDay(from_yo(y, DaysInYear(y)), Some(F(40))),
     GsodDay(from_yo(y, DaysInYear(y)), None)}

DaySeqs(y) == UNION {[1..n -> GsodDays(y)] : n \in 0..MaxRecords}

Extractors == {"map", "or_zero"}

Aggs == {"min", "max", "mean"}

Ranges == {Range_new(a, b) : a, b \in Vals}

Units == {Unit_new(Rat(n, 2)) : n \in -2..4}

\* indices around every multiple of the length n
GetIndices(n) == {q * n + r : q \in -2..2, r \in -1..1}

Factors == 0..(MaxLen + 1)

\* ends of the ranges a Scale is made for
ScaleEnds == {F(-5), F(0), F(2), F(40), F(50)}

\* every pair of them, and the Range of a Series without a present value
ScaleRanges ==
    {Range_new(a, b) : a, b \in ScaleEnds} \cup {Range_new(F64_MAX, F64_MIN)}

\* the widest Range with finite ends
WidestRange == Range_new(F64_MIN, F64_MAX)

\* the two limits render.rs passes to from_range
Lims == {F(4), F(5)}

Steps == {F(-1), F(0), Rat(1, 2), F(1), F(3), F(20)}

\* years with and without a leap day, two of them ending a century
TimeYears == {1900, 2000, 2023, 2024}

\* a day record of year y with all six metrics present
FullDay(y, o, min_t, max_t, mean_t, mean_w, max_w, prcp) ==
    StationDay(from_yo(y, o), Some(min_t), Some(max_t), Some(mean_t),
               Some(mean_w), Some(max_w), Some(prcp))

\* records on the first, the third and the last day of year y
Typical(y) ==
    <<FullDay(y, 1, F(40), F(50), F(45), F(5), F(10), F(0)),
      FullDay(y, 3, F(30), F(60), F(44), F(7), F(12), F(2)),
      FullDay(y, DaysInYear(y), F(35), F(55), F(46), F(6), F(20), Rat(1, 2))>>

\* the same days, every record lacking some of the metrics
Gaps(y) ==
    <<StationDay(from_yo(y, 1), None, Some(F(50)), Some(F(45)),
                 None, Some(F(10)), None),
      StationDay(from_yo(y, 3), Some(F(30)), None, None,
                 Some(F(7)), None, Some(F(2))),
      StationDay(from_yo(y, DaysInYear(y)), Some(F(35)), Some(F(55)), Some(F(46)),
                 Some(F(6)), Some(F(20)), None)>>

\* the stations of year y: without any record; typical; with gaps; without
\* rain (every precipitation 0.0); without a precipitation report; with one
\* wind speed throughout; with one record, whose temperatures are all equal
Stations(y) ==
    {[days |-> <<>>],
     [days |-> Typical(y)],
     [days |-> Gaps(y)],
     [days |-> [i \in 1..3 |-> [Typical(y)[i] EXCEPT !.precipitation = Some(F(0))]]],
     [days |-> [i \in 1..3 |-> [Typical(y)[i] EXCEPT !.precipitation = None]]],
     [days |-> [i \in 1..3 |-> [Typical(y)[i] EXCEPT !.mean_wind = Some(F(5)),
                                                     !.max_sustained_wind = Some(F(5))]]],
     [days |-> <<FullDay(y, 3, F(40), F(40), F(40), F(5), F(10), F(1))>>]}

\* the values of --downsample-by
DownsampleFactors == 0..MaxFactor

\* the values of the two Series of a band
BandIters == UNION {[1..n -> {Some(F(0)), Some(F(1)), Some(F(2))}] : n \in 0..MaxLen}

\* the destinations execute asks for: format!("{}.tar.gz", args.year)
Destinations == {"2023.tar.gz", "2024.tar.gz"}

\* the ways a fetch can go
Fetches == {"no_response", "no_body", "broken_body", "error_status", "archive"}

\* the radii between which render puts the curves: r * 0.6 and r * 0.9, here
\* for r = 100
RadialRanges == {Range_new(F(60), F(90))}

\* the radii between which the charts put the months:
\* rrange.min() - 40.0 and rrange.min() - 5.0
MonthRanges == {Range_new(F(20), F(55))}

----------------------------------------------------------------------------
(* The Series under test: it is built, then one of its methods is called   *)
(* on it.  No method changes its receiver (with_range and downsample_by    *)
(* return a new Series), so further calls would only repeat these states.  *)

NoCall == [op |-> "init"]

NoRet == [kind |-> "none"]

Built == call.op \in {"from_iterator", "for_each_day"}

FromIterator ==
    /\ call.op = "init"
    /\ \E iter \in Iters :
        /\ input' = [kind |-> "iter", iter |-> iter]
        /\ series' = from_iterator(iter)
        /\ call' = [op |-> "from_iterator"]
        /\ ret' = [kind |-> "Series"]
    /\ UNCHANGED <<rangeVars, scaleVars, timeVars, renderVars, canvasVars, dataVars>>

ForEachDay ==
    /\ call.op = "init"
    /\ \E y \in Years, f \in Extractors :
       \E days \in DaySeqs(y) :
        /\ input' = [kind |-> "days", year |-> Year_from_ordinal(y), days |-> days, f |-> f]
        /\ series' = for_each_day(Year_from_ordinal(y), days, f)
        /\ call' = [op |-> "for_each_day"]
        /\ ret' = [kind |-> "Series"]
    /\ UNCHANGED <<rangeVars, scaleVars, timeVars, renderVars, canvasVars, dataVars>>

WithRange ==
    /\ Built
    /\ \E r \in Ranges :
        /\ call' = [op |-> "with_range", rng |-> r]
        /\ ret' = [kind |-> "Series", s |-> with_range(series, r)]
    /\ UNCHANGED <<input, series, rangeVars, scaleVars, timeVars, renderVars, canvasVars, dataVars>>

\* i % n panics on an empty Series (remainder with a divisor of zero)
Get ==
    /\ Built
    /\ \E i \in GetIndices(Len(series.vals)) :
        /\ call' = [op |-> "get", i |-> i]
        /\ ret' = IF Len(series.vals) = 0 THEN Panic
                  ELSE [kind |-> "f64", v |-> Series_get(series, i)]
    /\ UNCHANGED <<input, series, rangeVars, scaleVars, timeVars, renderVars, canvasVars, dataVars>>

GetNormalized ==
    /\ Built
    /\ \E i \in GetIndices(Len(series.vals)) :
        /\ call' = [op |-> "get_normalized", i |-> i]
        /\ ret' = IF Len(series.vals) = 0 THEN Panic
                  ELSE [kind |-> "Unit", u |-> get_normalized(series, i)]
    /\ UNCHANGED <<input, series, rangeVars, scaleVars, timeVars, renderVars, canvasVars, dataVars>>

\* len / n panics for n = 0 (division by zero)
DownsampleBy ==
    /\ Built
    /\ \E n \in Factors, agg \in Aggs :
        /\ call' = [op |-> "downsample_by", n |-> n, agg |-> agg]
        /\ ret' = IF n = 0 THEN Panic
                  ELSE [kind |-> "Series", s |-> downsample_by(series, n, agg),
                        blocks |-> DownsampleRun(series, n, agg).blocks]
    /\ UNCHANGED <<input, series, rangeVars, scaleVars, timeVars, renderVars, canvasVars, dataVars>>

SeriesInit ==
    /\ input = [kind |-> "none"]
    /\ series = from_iterator(<<>>)
    /\ call = NoCall
    /\ ret = NoRet

SeriesNext ==
    \/ FromIterator
    \/ ForEachDay
    \/ WithRange
    \/ Get
    \/ GetNormalized
    \/ DownsampleBy

----------------------------------------------------------------------------
(* The Range under test *)

NoPrev == [call |-> [op |-> "none"], ret |-> NoRet]

\* v is a fresh value, or the value the preceding project returned
Normalize ==
    /\ \E chained \in BOOLEAN :
       \E v \in (IF chained
                 THEN (IF rcall.op = "project" THEN {rret.v} ELSE {})
                 ELSE Vals) :
        /\ rcall' = [op |-> "normalize", v |-> v]
        /\ rret' = [kind |-> "Unit", u |-> Range_normalize(rng, v)]
        /\ rprev' = IF chained THEN [call |-> rcall, ret |-> rret] ELSE NoPrev
    /\ UNCHANGED <<rng, seriesVars, scaleVars, timeVars, renderVars, canvasVars, dataVars>>

\* u is a fresh Unit, or the Unit the preceding normalize returned
Project ==
    /\ \E chained \in BOOLEAN :
       \E u \in (IF chained
                 THEN (IF rcall.op = "normalize" THEN {rret.u} ELSE {})
                 ELSE Units) :
        /\ rcall' = [op |-> "project", u |-> u]
        /\ rret' = [kind |-> "f64", v |-> Range_project(rng, u)]
        /\ rprev' = IF chained THEN [call |-> rcall, ret |-> rret] ELSE NoPrev
    /\ UNCHANGED <<rng, seriesVars, scaleVars, timeVars, renderVars, canvasVars, dataVars>>

\* Range::intersect(a, b) with a the Range under test, which the result replaces
Intersect ==
    /\ \E b \in Ranges :
        /\ rcall' = [op |-> "intersect", a |-> rng, b |-> b]
        /\ rret' = [kind |-> "Range", r |-> Range_intersect(rng, b)]
        /\ rng' = Range_intersect(rng, b)
        /\ rprev' = NoPrev
    /\ UNCHANGED <<seriesVars, scaleVars, timeVars, renderVars, canvasVars, dataVars>>

RangeInit ==
    /\ rng \in Ranges
    /\ rcall = [op |-> "new"]
    /\ rret = NoRet
    /\ rprev = NoPrev

RangeNext ==
    \/ Normalize
    \/ Project
    \/ Intersect

----------------------------------------------------------------------------
(* The Scale under test: it is made by one of the two constructors, then   *)
(* label_for is called on it.                                              *)

NoScale == [kind |-> "none"]

FromRange ==
    /\ scall.op = "init"
    /\ \E r \in ScaleRanges \cup {WidestRange}, lim \in Lims :
        /\ scall' = [op |-> "from_range", r |-> r, lim |-> lim]
        /\ sret' = Scale_from_range(r, lim)
        /\ scale' = Scale_from_range(r, lim)
    /\ UNCHANGED <<seriesVars, rangeVars, timeVars, renderVars, canvasVars, dataVars>>

FromRangeWithStep ==
    /\ scall.op = "init"
    /\ \E r \in ScaleRanges, step \in Steps :
        /\ scall' = [op |-> "from_range_with_step", r |-> r, step |-> step]
        /\ sret' = Scale_from_range_with_step(r, step)
        /\ scale' = Scale_from_range_with_step(r, step)
    /\ UNCHANGED <<seriesVars, rangeVars, timeVars, renderVars, canvasVars, dataVars>>

\* self.steps[i] panics for an index past the last tick
LabelFor ==
    /\ scall.op \in {"from_range", "from_range_with_step"}
    /\ scale.kind = "Scale"
    /\ \E i \in 0..Len(scale.steps) :
        /\ scall' = [op |-> "label_for", i |-> i, made |-> scall]
        /\ sret' = IF i >= Len(scale.steps) THEN Panic
                   ELSE [kind |-> "String", label |-> label_for(scale, i)]
    /\ UNCHANGED <<scale, seriesVars, rangeVars, timeVars, renderVars, canvasVars, dataVars>>

ScaleInit ==
    /\ scale = NoScale
    /\ scall = NoCall
    /\ sret = NoRet

ScaleNext ==
    \/ FromRange
    \/ FromRangeWithStep
    \/ LabelFor

----------------------------------------------------------------------------
(* The Year under test: iterators over its days and its months are made    *)
(* and driven to their end, one after the other.                           *)

NoYear == [kind |-> "none"]

NoIter == [kind |-> "none"]

FromOrdinal ==
    /\ tyear = NoYear
    /\ \E ord \in TimeYears : tyear' = Year_from_ordinal(ord)
    /\ UNCHANGED <<titer, yielded, earlier>>
    /\ UNCHANGED <<seriesVars, rangeVars, scaleVars, renderVars, canvasVars, dataVars>>

\* the iterator before has returned None, or there was none
IterEnded == IF titer = NoIter THEN TRUE ELSE titer.ended

\* what the iterators before have yielded, the one that has just ended included
Ended ==
    IF titer = NoIter THEN earlier
    ELSE Append(earlier, [kind |-> titer.kind, items |-> yielded])

Days ==
    /\ tyear # NoYear
    /\ IterEnded
    /\ Len(Ended) < MaxIters
    /\ titer' = [kind |-> "days", it |-> Year_days(tyear), ended |-> FALSE]
    /\ yielded' = <<>>
    /\ earlier' = Ended
    /\ UNCHANGED tyear
    /\ UNCHANGED <<seriesVars, rangeVars, scaleVars, renderVars, canvasVars, dataVars>>

Months ==
    /\ tyear # NoYear
    /\ IterEnded
    /\ Len(Ended) < MaxIters
    /\ titer' = [kind |-> "months", it |-> Year_months(tyear), ended |-> FALSE]
    /\ yielded' = <<>>
    /\ earlier' = Ended
    /\ UNCHANGED tyear
    /\ UNCHANGED <<seriesVars, rangeVars, scaleVars, renderVars, canvasVars, dataVars>>

\* one call of next() on the iterator; at most MaxDays items are taken
IterNext ==
    /\ titer # NoIter
    /\ IF titer = NoIter THEN FALSE ELSE ~titer.ended
    /\ Len(yielded) < MaxDays
    /\ LET r == IF titer.kind = "days" THEN DaysIter_next(titer.it)
                ELSE MonthsIter_next(titer.it)
       IN  /\ titer' = [titer EXCEPT !.it = r.it, !.ended = (r.item = <<>>)]
           /\ yielded' = yielded \o r.item
    /\ UNCHANGED <<tyear, earlier>>
    /\ UNCHANGED <<seriesVars, rangeVars, scaleVars, renderVars, canvasVars, dataVars>>

TimeNext ==
    \/ FromOrdinal
    \/ Days
    \/ Months
    \/ IterNext

----------------------------------------------------------------------------
(* A render pass: render draws the temperature, the wind and the           *)
(* precipitation chart, in this order; a panic in one ends the pass.       *)

NoPass == [kind |-> "none"]

NoChart == [kind |-> "none"]

\* render is called and gets to its first chart
Render ==
    /\ pc = "idle"
    /\ \E y \in Years, n \in DownsampleFactors, debug \in BOOLEAN, smooth \in BOOLEAN :
       \E station \in Stations(y), rrange \in RadialRanges :
        /\ pass' = [year |-> Year_from_ordinal(y), station |-> station,
                    rrange |-> rrange,
                    opts |-> [downsample_by |-> n, debug |-> debug, smooth |-> smooth]]
        /\ ctx' = render_start(pass'.opts).calls
    /\ pc' = "temperature"
    /\ chart' = NoChart
    /\ UNCHANGED <<seriesVars, rangeVars, scaleVars, timeVars, ccall, dataVars>>

RenderTemperature ==
    /\ pc = "temperature"
    /\ \E c \in {render_temperature(pass.year, pass.station, pass.opts)} :
       \E done \in {render_chart("TEMPERATURE", 1, pass.rrange,
                        render_temperature_calls(c, pass.year, pass.rrange, pass.opts))} :
           /\ chart' = c
           /\ ctx' = ctx \o done.calls
           /\ pc' = IF done.outcome = "panic" THEN "panicked" ELSE "wind"
    /\ UNCHANGED pass
    /\ UNCHANGED <<seriesVars, rangeVars, scaleVars, timeVars, ccall, dataVars>>

RenderWind ==
    /\ pc = "wind"
    /\ \E c \in {render_wind(pass.year, pass.station, pass.opts)} :
       \E done \in {render_chart("WIND", 3, pass.rrange,
                        render_wind_calls(c, pass.year, pass.rrange, pass.opts))} :
           /\ chart' = c
           /\ ctx' = ctx \o done.calls
           /\ pc' = IF done.outcome = "panic" THEN "panicked" ELSE "precipitation"
    /\ UNCHANGED pass
    /\ UNCHANGED <<seriesVars, rangeVars, scaleVars, timeVars, ccall, dataVars>>

RenderPrecipitation ==
    /\ pc = "precipitation"
    /\ \E c \in {render_precipitation(pass.year, pass.station, pass.opts)} :
       \E done \in {render_chart("PRECIPITATION", 5, pass.rrange,
                        render_precipitation_calls(c, pass.year, pass.rrange, pass.opts))} :
           /\ chart' = c
           /\ ctx' = ctx \o done.calls
           /\ pc' = IF done.outcome = "panic" THEN "panicked" ELSE "done"
    /\ UNCHANGED pass
    /\ UNCHANGED <<seriesVars, rangeVars, scaleVars, timeVars, ccall, dataVars>>

RenderNext ==
    \/ Render
    \/ RenderTemperature
    \/ RenderWind
    \/ RenderPrecipitation

----------------------------------------------------------------------------
(* The drawing functions under test: one of them is called on a Context of *)
(* its own, on which nothing has been drawn.                               *)

RenderRadialSeries ==
    /\ ccall.op = "init"
    /\ \E iter \in Iters, rrange \in RadialRanges, smooth \in BOOLEAN :
        LET s == from_iterator(iter)
            done == render_radial_series(s, rrange, "e45f91", smooth)
        IN  /\ ccall' = [op |-> "render_radial_series", series |-> s,
                         rrange |-> rrange, smooth |-> smooth,
                         outcome |-> done.outcome]
            /\ ctx' = done.calls
    /\ UNCHANGED <<seriesVars, rangeVars, scaleVars, timeVars, renderVars, dataVars>>

RenderRadialRange ==
    /\ ccall.op = "init"
    /\ \E a \in BandIters, b \in BandIters, rrange \in RadialRanges, smooth \in BOOLEAN :
        LET min == from_iterator(a)
            max == from_iterator(b)
            done == render_radial_range(min, max, rrange, Some("6eb078 0.1"),
                                        Some("6eb078"), smooth)
        IN  /\ ccall' = [op |-> "render_radial_range", min |-> min, max |-> max,
                         rrange |-> rrange, smooth |-> smooth,
                         outcome |-> done.outcome]
            /\ ctx' = done.calls
    /\ UNCHANGED <<seriesVars, rangeVars, scaleVars, timeVars, renderVars, dataVars>>

RenderMonths ==
    /\ ccall.op = "init"
    /\ \E y \in TimeYears, r \in MonthRanges :
        LET done == render_months(Year_from_ordinal(y), r)
        IN  /\ ccall' = [op |-> "render_months", year |-> Year_from_ordinal(y),
                         r |-> r, outcome |-> done.outcome]
            /\ ctx' = done.calls
    /\ UNCHANGED <<seriesVars, rangeVars, scaleVars, timeVars, renderVars, dataVars>>

CanvasNext ==
    \/ RenderRadialSeries
    \/ RenderRadialRange
    \/ RenderMonths

----------------------------------------------------------------------------
(* The Data directory under test: download_and_open is called again and    *)
(* again, for one destination or another.                                  *)

DownloadAndOpen ==
    /\ Len(requested) < MaxCalls
    /\ \E dst \in Destinations, net \in Fetches :
        LET done == download_and_open(files, dst, net)
        IN  /\ files' = done.files
            /\ requested' = IF done.requested THEN Append(requested, dst)
                             ELSE requested
            /\ dcall' = [op |-> "download_and_open", dst |-> dst,
                          existed |-> files[dst].exists,
                          requested |-> done.requested, ret |-> done.ret]
    /\ UNCHANGED <<seriesVars, rangeVars, scaleVars, timeVars, renderVars, canvasVars>>

DataNext == DownloadAndOpen

----------------------------------------------------------------------------
(* Specifications *)

\* no Year is under test
TimeInit ==
    /\ tyear = NoYear
    /\ titer = NoIter
    /\ yielded = <<>>
    /\ earlier = <<>>

\* no render pass is under way
RenderInit ==
    /\ pass = NoPass
    /\ pc = "idle"
    /\ chart = NoChart

\* nothing has been drawn
CanvasInit ==
    /\ ctx = <<>>
    /\ ccall = NoCall

\* Data::from has made the directory; nothing has been downloaded
DataInit ==
    /\ files = [dst \in Destinations |-> Absent]
    /\ requested = <<>>
    /\ dcall = NoCall

\* the Series methods, the Range held fixed
InitSeries ==
    /\ SeriesInit
    /\ rng = Range_new(F(0), F(2))
    /\ rcall = [op |-> "new"]
    /\ rret = NoRet
    /\ rprev = NoPrev
    /\ ScaleInit
    /\ TimeInit
    /\ RenderInit
    /\ CanvasInit
    /\ DataInit

SpecSeries == InitSeries /\ [][SeriesNext]_vars

\* the Range methods, no Series built
InitRange == RangeInit /\ SeriesInit /\ ScaleInit /\ TimeInit /\ RenderInit
    /\ CanvasInit
    /\ DataInit

SpecRange == InitRange /\ [][RangeNext]_vars

\* the Scale constructors and label_for
InitScale ==
    /\ ScaleInit
    /\ SeriesInit
    /\ rng = Range_new(F(0), F(2))
    /\ rcall = [op |-> "new"]
    /\ rret = NoRet
    /\ rprev = NoPrev
    /\ TimeInit
    /\ RenderInit
    /\ CanvasInit
    /\ DataInit

SpecScale == InitScale /\ [][ScaleNext]_vars

\* the calendar iterators
InitTime ==
    /\ TimeInit
    /\ SeriesInit
    /\ rng = Range_new(F(0), F(2))
    /\ rcall = [op |-> "new"]
    /\ rret = NoRet
    /\ rprev = NoPrev
    /\ ScaleInit
    /\ RenderInit
    /\ CanvasInit
    /\ DataInit

SpecTime == InitTime /\ [][TimeNext]_vars

\* the render passes
InitRender ==
    /\ RenderInit
    /\ SeriesInit
    /\ rng = Range_new(F(0), F(2))
    /\ rcall = [op |-> "new"]
    /\ rret = NoRet
    /\ rprev = NoPrev
    /\ ScaleInit
    /\ TimeInit
    /\ CanvasInit
    /\ DataInit

SpecRender == InitRender /\ [][RenderNext]_vars

\* the drawing functions, each on a Context of its own
InitCanvas ==
    /\ CanvasInit
    /\ SeriesInit
    /\ rng = Range_new(F(0), F(2))
    /\ rcall = [op |-> "new"]
    /\ rret = NoRet
    /\ rprev = NoPrev
    /\ ScaleInit
    /\ TimeInit
    /\ RenderInit
    /\ DataInit

SpecCanvas == InitCanvas /\ [][CanvasNext]_vars

\* the downloads into the data directory
InitData ==
    /\ DataInit
    /\ SeriesInit
    /\ rng = Range_new(F(0), F(2))
    /\ rcall = [op |-> "new"]
    /\ rret = NoRet
    /\ rprev = NoPrev
    /\ ScaleInit
    /\ TimeInit
    /\ RenderInit
    /\ CanvasInit

SpecData == InitData /\ [][DataNext]_vars

----------------------------------------------------------------------------
(* Claims about Series, checked under SpecSeries *)

SetMax(S) == CHOOSE x \in S : \A y \in S : y <= x

SetMin(S) == CHOOSE x \in S : \A y \in S : x <= y

\* the positions (from 1) of the present items of a sequence of options
Present(iter) == {j \in 1..Len(iter) : iter[j].some}

\* what a carry-forward fill stores at position i (from 1): the item itself
\* when present, else the nearest earlier present item, else 0.0
CarryForward(iter, i) ==
    LET P == {j \in Present(iter) : j <= i}
    IN  IF P = {} THEN F(0) ELSE iter[SetMax(P)].v

\* from_iterator has just returned series for input.iter
FromIter == call.op = "from_iterator"

\* C1: from_iterator stores, at every index, the input value when it is
\* present and else the nearest earlier present value (0.0 when there is
\* none), and stores exactly as many values as the input has items.
C1_CarryForwardFill ==
    FromIter =>
        /\ Len(series.vals) = Len(input.iter)
        /\ \A i \in 1..Len(input.iter) :
               series.vals[i] = CarryForward(input.iter, i)

\* a missing item before any present one (filled with 0.0) and a missing item
\* after a present non-zero one (carried)
C1_Witness ==
    /\ FromIter
    /\ Len(input.iter) >= 3
    /\ ~input.iter[1].some
    /\ \E i \in 2..(Len(input.iter) - 1) :
           /\ input.iter[i].some /\ input.iter[i].v # F(0)
           /\ ~input.iter[i + 1].some
           /\ series.vals[i + 1] = input.iter[i].v

\* C2: with at least one present value, the Range of the built Series is
\* [smallest present value, largest present value]; the filled values, the
\* initial 0.0 included, do not enter it.
C2_RangeOfPresent ==
    (FromIter /\ Present(input.iter) # {}) =>
        LET P == Present(input.iter)
        IN  /\ \E j \in P : series.rng.min = input.iter[j].v
            /\ \A j \in P : FLe(series.rng.min, input.iter[j].v)
            /\ \E j \in P : series.rng.max = input.iter[j].v
            /\ \A j \in P : FLe(input.iter[j].v, series.rng.max)

\* the 0.0 filled in for a leading missing item lies outside the Range
C2_Witness ==
    /\ FromIter
    /\ Len(input.iter) >= 3
    /\ ~input.iter[1].some
    /\ series.vals[1] = F(0)
    /\ FLt(F(0), series.rng.min)
    /\ FLt(series.rng.min, series.rng.max)

\* C3: with at least one present value, max_index (min_index) is the
\* smallest index, from 0, whose present value is the maximum (minimum).
C3_FirstExtremumIndex ==
    (FromIter /\ Present(input.iter) # {}) =>
        LET P == Present(input.iter)
            AtMax == {j \in P : \A k \in P : FLe(input.iter[k].v, input.iter[j].v)}
            AtMin == {j \in P : \A k \in P : FLe(input.iter[j].v, input.iter[k].v)}
        IN  /\ series.max_index = SetMin(AtMax) - 1
            /\ series.min_index = SetMin(AtMin) - 1

\* the maximum is present twice, first at an index above 0
C3_Witness ==
    /\ FromIter
    /\ series.max_index > 0
    /\ \E j \in Present(input.iter) :
           /\ j - 1 > series.max_index
           /\ input.iter[j].v = series.rng.max
    /\ series.min_index # series.max_index

\* for_each_day has just returned series for input.year, input.days, input.f
FromDays == call.op = "for_each_day"

\* what f returns for the record of ordinal d: of the last record with that
\* ordinal, and nothing when there is no such record
OptionOfDay(days, f, d) ==
    LET I == {i \in 1..Len(days) : days[i].date.o = d}
    IN  IF I = {} THEN None ELSE Extract(f, days[SetMax(I)])

\* the worked example: Year 2023, 50 on ordinal 1 and 40 on ordinal 3 only
WorkedExample ==
    /\ input.kind = "days"
    /\ input.year = Year_from_ordinal(2023)
    /\ input.f = "map"
    /\ {input.days[i] : i \in 1..Len(input.days)} =
           {GsodDay(from_yo(2023, 1), Some(F(50))), GsodDay(from_yo(2023, 3), Some(F(40)))}

\* C4: for_each_day stores one value per day of the year, index d-1 for
\* ordinal d, a day being missing exactly when it has no record or f returns
\* nothing for its record; in the worked example the values are 50, 50, 40,
\* 40, ..., the Range is {40, 50}, max_index is 0 and min_index is 2.
C4_ForEachDay ==
    FromDays =>
        LET N == DaysInYear(input.year.start.y)
            opt(d) == OptionOfDay(input.days, input.f, d)
            P == {d \in 1..N : opt(d).some}
        IN  /\ N \in {365, 366}
            /\ Len(series.vals) = N
            /\ \A d \in 1..N :
                   LET Q == {j \in P : j <= d}
                   IN  series.vals[d] = IF Q = {} THEN F(0) ELSE opt(SetMax(Q)).v
            /\ WorkedExample =>
                   /\ Len(series.vals) = 365
                   /\ series.vals[1] = F(50) /\ series.vals[2] = F(50)
                   /\ \A i \in 3..365 : series.vals[i] = F(40)
                   /\ series.rng = Range_new(F(40), F(50))
                   /\ series.max_index = 0
                   /\ series.min_index = 2

C4_Witness == WorkedExample /\ call.op = "for_each_day"

\* C5: get(i) is the value at index i mod n (the non-negative modulo), so it
\* is the same for i + k*n, get(-1) is the last value and get(n) the first.
C5_CircularGet ==
    (call.op = "get" /\ Len(series.vals) >= 1) =>
        LET n == Len(series.vals)
        IN  /\ ret.kind = "f64"
            /\ ret.v = series.vals[(call.i % n) + 1]
            /\ \A k \in -2..2 : Series_get(series, call.i + k * n) = ret.v
            /\ call.i = -1 => ret.v = series.vals[n]
            /\ call.i = n => ret.v = series.vals[1]

\* a negative index into a Series whose last value is not its first
C5_Witness ==
    /\ call.op = "get"
    /\ Len(series.vals) >= 3
    /\ call.i = -1
    /\ ret.kind = "f64"
    /\ ret.v # series.vals[1]
    /\ ret.v # series.vals[2]

\* C6: downsample_by(k, agg), k >= 1, returns floor(n/k) values, value j
\* being agg of the original values j*k .. j*k+k-1; agg is called on these
\* blocks only, so the last n mod k values reach no call, and nothing is padded.
C6_DownsampleBlocks ==
    (call.op = "downsample_by" /\ call.n >= 1) =>
        LET k == call.n
            n == Len(series.vals)
            m == n \div k
        IN  /\ ret.kind = "Series"
            /\ Len(ret.s.vals) = m
            /\ \A j \in 0..(m - 1) :
                   ret.s.vals[j + 1] =
                       Agg(call.agg, [x \in 1..k |-> series.vals[j * k + x]])
            /\ ret.blocks = [j \in 1..m |-> <<(j - 1) * k, (j - 1) * k + k>>]
            /\ \A b \in 1..Len(ret.blocks) : ret.blocks[b][2] <= n - (n % k)

\* several blocks and a tail remainder that is dropped
C6_Witness ==
    /\ call.op = "downsample_by"
    /\ call.n >= 2
    /\ ret.kind = "Series"
    /\ Len(series.vals) % call.n # 0
    /\ Len(ret.s.vals) >= 2
    /\ ret.s.vals[1] # ret.s.vals[2]

\* C7: the Series downsample_by(k, agg) returns has the original min_index
\* and max_index integer-divided by k, whatever agg and the new values are;
\* in the worked example with k = 2: min_index 1, max_index 0, length 182.
C7_DownsampleIndices ==
    (call.op = "downsample_by" /\ call.n >= 1) =>
        /\ ret.kind = "Series"
        /\ ret.s.min_index = series.min_index \div call.n
        /\ ret.s.max_index = series.max_index \div call.n
        /\ (WorkedExample /\ call.n = 2) =>
               /\ ret.s.min_index = 1
               /\ ret.s.max_index = 0
               /\ Len(ret.s.vals) = 182

C7_Witness ==
    /\ WorkedExample
    /\ call.op = "downsample_by"
    /\ call.n = 2
    /\ call.agg = "max"
    /\ ret.s.vals[1] = F(50)
    /\ ret.s.vals[2] = F(40)

\* C8: with_range(r) returns the values, min_index and max_index of its
\* receiver and the Range r, whatever the receiver's Range was.
C8_WithRange ==
    call.op = "with_range" =>
        /\ ret.kind = "Series"
        /\ ret.s.vals = series.vals
        /\ ret.s.min_index = series.min_index
        /\ ret.s.max_index = series.max_index
        /\ ret.s.rng = call.rng

\* a Range other than the receiver's, on a Series with two extremes
C8_Witness ==
    /\ call.op = "with_range"
    /\ call.rng # series.rng
    /\ Len(series.vals) >= 2
    /\ series.min_index # series.max_index

----------------------------------------------------------------------------
(* Claims about Range, checked under SpecRange *)

\* C9: on a Range with min # max, project undoes normalize and normalize
\* undoes project, exactly; normalize(min) is 0 and normalize(max) is 1.
C9_RangeInverse ==
    (rng.min # rng.max) =>
        /\ (rcall.op = "project" /\ rprev.call.op = "normalize") =>
               rret.v = rprev.call.v
        /\ (rcall.op = "normalize" /\ rprev.call.op = "project") =>
               rret.u = rprev.call.u
        /\ (rcall.op = "normalize" /\ rcall.v = rng.min) => rret.u = Unit_zero
        /\ (rcall.op = "normalize" /\ rcall.v = rng.max) => rret.u = Unit_new(F(1))

\* project applied to what normalize returned, the Unit not being whole
C9_Witness ==
    /\ rng.min # rng.max
    /\ rng.min # F(0)
    /\ rcall.op = "project"
    /\ rprev.call.op = "normalize"
    /\ rcall.u = rprev.ret.u
    /\ rcall.u.v.d # 1
    /\ rret.v = rprev.call.v

\* C10: intersect(a, b) is the hull {min(a.min, b.min), max(a.max, b.max)}:
\* it contains a and b, intersect(b, a) is the same, intersect(a, a) is a.
C10_IntersectIsHull ==
    rcall.op = "intersect" =>
        LET a == rcall.a
            b == rcall.b
            r == rret.r
        IN  /\ r.min = (IF FLt(b.min, a.min) THEN b.min ELSE a.min)
            /\ r.max = (IF FLt(a.max, b.max) THEN b.max ELSE a.max)
            /\ FLe(r.min, a.min) /\ FLe(r.min, b.min)
            /\ FLe(a.max, r.max) /\ FLe(b.max, r.max)
            /\ r = Range_intersect(b, a)
            /\ (a = b) => (r = a)
            /\ rng = r

\* two overlapping Ranges, neither containing the other
C10_Witness ==
    /\ rcall.op = "intersect"
    /\ FLt(rcall.a.min, rcall.b.min)
    /\ FLt(rcall.b.min, rcall.a.max)
    /\ FLt(rcall.a.max, rcall.b.max)
    /\ rret.r = Range_new(rcall.a.min, rcall.b.max)

----------------------------------------------------------------------------
(* Scale *)

\* a Scale was returned by one of the two constructors for the Range MadeFor
Made == scall.op \in {"from_range", "from_range_with_step"} /\ sret.kind = "Scale"

\* v is a whole multiple of step
IsMultiple(v, step) == FDiv(v, step).d = 1

\* C11: for a Range with min < max and a positive step the ticks of the
\* Scale increase strictly, consecutive ticks differ by exactly the step,
\* the first tick is the smallest multiple of the step strictly greater than
\* range.min, and every tick lies strictly between range.min and range.max
C11_Ticks ==
    (Made /\ FLt(scall.r.min, scall.r.max) /\ FLt(F(0), sret.step)) =>
        LET t == sret.steps
            r == scall.r
        IN  /\ \A k \in 1..(Len(t) - 1) :
                FLt(t[k], t[k + 1]) /\ FSub(t[k + 1], t[k]) = sret.step
            /\ Len(t) > 0 =>
                /\ IsMultiple(t[1], sret.step)
                /\ FLt(r.min, t[1])
                /\ FLe(FSub(t[1], sret.step), r.min)
            /\ \A k \in 1..Len(t) : FLt(r.min, t[k]) /\ FLt(t[k], r.max)

\* a Range that begins on a multiple of the step and holds several ticks
C11_Witness ==
    /\ scall.op = "from_range_with_step"
    /\ sret.kind = "Scale"
    /\ scall.r = Range_new(F(40), F(50))
    /\ scall.step = F(3)
    /\ sret.steps = <<F(42), F(45), F(48)>>

\* the width of the Range from_range was called with
Width == FSub(scall.r.max, scall.r.min)

\* the candidate steps of a finite width > 0: 10^(floor(log10 width) - 1)
\* times 1, 2, 3, 5, 10, 20, 30, 50
Candidates ==
    LET magnitude == Pow10(F(Exp10(Width.n, Width.d) - 1))
    IN  {FMul(F(f), magnitude) : f \in {1, 2, 3, 5, 10, 20, 30, 50}}

\* candidate c leaves fewer than lim steps in the width
Fits(c) == FLt(FDiv(Width, c), scall.lim)

\* C12: from_range takes as step the smallest candidate s with
\* width / s < lim, a candidate with width / s = lim being passed over; for
\* the Range {40, 50} and lim 5 the step is 3 and the ticks are 42, 45, 48
C12_SmallestFittingStep ==
    (scall.op = "from_range" /\ FLt(F(0), Width) /\ Width.d # 0) =>
        /\ (\E c \in Candidates : Fits(c)) => sret.kind = "Scale"
        /\ sret.kind = "Scale" =>
            /\ sret.step \in Candidates
            /\ Fits(sret.step)
            /\ \A c \in Candidates : FLt(c, sret.step) => ~Fits(c)
            /\ sret.steps = Scale_from_range_with_step(scall.r, sret.step).steps
        /\ (scall.r = Range_new(F(40), F(50)) /\ scall.lim = F(5)) =>
            sret = [kind |-> "Scale", step |-> F(3),
                    steps |-> <<F(42), F(45), F(48)>>]

\* the worked example: the candidate 2 gives 10 / 2 = 5 = lim and is passed
\* over, 3 is taken
C12_Witness ==
    /\ scall.op = "from_range"
    /\ scall.r = Range_new(F(40), F(50))
    /\ scall.lim = F(5)
    /\ FDiv(Width, F(2)) = scall.lim
    /\ sret.kind = "Scale"
    /\ sret.step = F(3)

\* none of the eight steps from_range tries gives width / step < lim
NoStepFits ==
    LET mag == Pow10(FSub(Log10Floor(Width), F(1)))
    IN  \A k \in 1..Len(facs) :
            ~FLt(FDiv(Width, FMul(F(facs[k]), mag)), scall.lim)

\* C13: when no candidate step gives width / s < lim (a zero-width or an
\* inverted Range, or a lim too small), from_range hands an explicit error
\* to its caller: it does not panic and it does not return a Scale
C13_ExplicitError ==
    (scall.op = "from_range" /\ NoStepFits) => sret.kind = "error"

----------------------------------------------------------------------------
(* Series without a present value *)

\* the Series under test was built from no present value: by from_iterator
\* from an empty or all-missing sequence, or by for_each_day (which calls
\* from_iterator) from records none of which gives a value
NothingPresent ==
    \/ FromIter /\ Present(input.iter) = {}
    \/ FromDays /\ \A i \in 1..Len(input.days) : ~Extract(input.f, input.days[i]).some

\* C15: a Series built from zero present values has the inverted Range
\* {f64::MAX, f64::MIN} (min > max), min_index = max_index = 0, and every
\* stored value is 0.0
C15_NothingPresent ==
    NothingPresent =>
        /\ series.rng = Range_new(F64_MAX, F64_MIN)
        /\ FLt(series.rng.max, series.rng.min)
        /\ series.min_index = 0
        /\ series.max_index = 0
        /\ \A i \in 1..Len(series.vals) : series.vals[i] = F(0)

\* an all-missing sequence of the greatest length
C15_Witness ==
    /\ FromIter
    /\ Len(input.iter) = MaxLen
    /\ Present(input.iter) = {}
    /\ Len(series.vals) = MaxLen
    /\ series.rng.min = F64_MAX

----------------------------------------------------------------------------
(* Calendar iterators *)

\* a date as year, month and day of the month
Ymd(t) == <<t.y, NaiveDate_month(t), NaiveDate_day(t)>>

\* the calendar day after the day d of month m of year y
DayAfter(y, m, d) ==
    IF d < MonthLengths(y)[m] THEN <<y, m, d + 1>>
    ELSE IF m < 12 THEN <<y, m + 1, 1>>
    ELSE <<y + 1, 1, 1>>

\* the number of days of the year under test by the Gregorian rule
GregorianDays ==
    LET y == tyear.start.y
    IN  IF y % 4 = 0 /\ (y % 100 # 0 \/ y % 400 = 0) THEN 366 ELSE 365

\* the iterator being driven is a DaysIter / a MonthsIter
DrivingDays == titer # NoIter /\ titer.kind = "days"

DrivingMonths == titer # NoIter /\ titer.kind = "months"

\* C16: Year::days() never yields more days than the year has; run to its
\* end it has yielded exactly 365 days, or 366 in a Gregorian leap year: the
\* first is January 1, each is the calendar day after the one before, the
\* last is December 31, their ordinals are 1, 2, ..., N in order; and a
\* days() iterator made earlier over the same Year yielded the same sequence
C16_Days ==
    DrivingDays =>
        LET y == tyear.start.y
            N == GregorianDays
            n == Len(yielded)
        IN  /\ n <= N
            /\ titer.ended =>
                /\ n = N
                /\ Ymd(yielded[1].t) = <<y, 1, 1>>
                /\ \A k \in 1..(n - 1) :
                    LET d == Ymd(yielded[k].t)
                    IN  Ymd(yielded[k + 1].t) = DayAfter(d[1], d[2], d[3])
                /\ Ymd(yielded[n].t) = <<y, 12, 31>>
                /\ \A k \in 1..n : Day_ordinal(yielded[k]) = k
                /\ \A j \in 1..Len(earlier) :
                    earlier[j].kind = "days" => earlier[j].items = yielded

\* a leap year's days, iterated to the end for the second time
C16_Witness ==
    /\ DrivingDays
    /\ titer.ended
    /\ tyear = Year_from_ordinal(2024)
    /\ Len(yielded) = 366
    /\ Len(earlier) = 1
    /\ earlier[1].kind = "days"

\* the day counts of the Months ms[k..], added up
RECURSIVE SumOfDurations(_, _)
SumOfDurations(ms, k) ==
    IF k > Len(ms) THEN 0 ELSE Month_duration(ms[k]) + SumOfDurations(ms, k + 1)

\* C17: Year::months() never yields more than 12 Months; run to its end it
\* has yielded exactly 12, the k-th starting on the first day of the k-th
\* calendar month, the first at year.start; the end of each is the start of
\* the next, the end of December is January 1 of the next year, which is
\* year.end; and the Months' day counts add up to the year's day count
C17_Months ==
    DrivingMonths =>
        /\ Len(yielded) <= 12
        /\ titer.ended =>
            /\ Len(yielded) = 12
            /\ \A k \in 1..12 : Ymd(yielded[k].start) = <<tyear.start.y, k, 1>>
            /\ yielded[1].start = tyear.start
            /\ \A k \in 1..11 : Month_end(yielded[k]) = yielded[k + 1].start
            /\ Month_end(yielded[12]) = Year_end(tyear)
            /\ Ymd(Month_end(yielded[12])) = <<tyear.start.y + 1, 1, 1>>
            /\ SumOfDurations(yielded, 1) = Year_duration(tyear)
            /\ SumOfDurations(yielded, 1) = GregorianDays

\* the months of a leap year, February with its 29 days among them
C17_Witness ==
    /\ DrivingMonths
    /\ titer.ended
    /\ tyear = Year_from_ordinal(2000)
    /\ Len(yielded) = 12
    /\ Month_duration(yielded[2]) = 29
    /\ Month_end(yielded[12]) = from_yo(2001, 1)

----------------------------------------------------------------------------
(* Scale labels *)

\* label_for has returned the label of tick scall.i of the Scale under test
Labelled == scall.op = "label_for" /\ sret.kind = "String"

\* the decimal places the order of magnitude of a step below 1 asks for:
\* one for 0.1 .. 0.9, two for 0.01 .. 0.09
PlacesOfStep(step) == -Exp10(step.n, step.d)

\* C18: label_for writes every tick as an integer when the step is at least
\* 1, and otherwise writes every tick of the Scale with the same number of
\* decimal places, the one the order of magnitude of the step asks for,
\* whatever the tick's own value
C18_LabelPlaces ==
    Labelled =>
        IF FLe(F(1), scale.step) THEN sret.label.places = 0
        ELSE sret.label.places = PlacesOfStep(scale.step)

----------------------------------------------------------------------------
(* Render passes *)

\* a chart has been worked on, and it was drawn to its end
Charted == chart # NoChart

Drawn == chart # NoChart /\ chart.draw.outcome = "drawn"

\* C14: in every render pass and for every station, every Range that
\* reaches Scale::from_range, Range::normalize or Series::get_normalized has
\* min < max: a zero-width or an inverted Range is replaced or handled
\* before the Scale is made and before values are normalized
C14_NoDegenerateRange ==
    Charted =>
        \A i \in 1..Len(chart.draw.uses) :
            FLt(chart.draw.uses[i].range.min, chart.draw.uses[i].range.max)

\* the dense Series of one metric of the pass, as for_each_day builds it
Dense(metric, f) == for_each_day(pass.year, DaysOf(pass.station, metric), f)

\* the two metrics of the band of the chart
BandMetrics ==
    IF chart.kind = "temperature" THEN <<"min_temperature", "max_temperature">>
    ELSE <<"mean_wind", "max_sustained_wind">>

\* the smallest Range that holds both a and b
Union(a, b) ==
    Range_new(IF FLt(b.min, a.min) THEN b.min ELSE a.min,
              IF FLt(a.max, b.max) THEN b.max ELSE a.max)

\* C19: when the temperature or the wind chart is drawn, whatever the
\* downsample factor, both Series of the band carry one Range, the union of
\* the Ranges the two Series have at full resolution; the Scale is made from
\* that Range and the band is normalized in it
C19_BandRange ==
    (Drawn /\ chart.kind \in {"temperature", "wind"}) =>
        LET union == Union(Dense(BandMetrics[1], "map").rng,
                           Dense(BandMetrics[2], "map").rng)
            uses == chart.draw.uses
        IN  /\ chart.band[1].rng = union
            /\ chart.band[2].rng = union
            /\ uses[1] = Use("from_range", union)
            /\ chart.draw.scale = Scale_from_range(union, F(5))
            /\ uses[2] = Use("normalize", union)
            /\ uses[3] = Use("get_normalized", union)
            /\ uses[4] = Use("get_normalized", union)

\* a temperature band drawn at half the resolution, the two Series of which
\* had different Ranges of their own
C19_Witness ==
    /\ Drawn
    /\ chart.kind = "temperature"
    /\ pass.opts.downsample_by = 2
    /\ Len(chart.band[1].vals) = 182
    /\ Dense("min_temperature", "map").rng # Dense("max_temperature", "map").rng
    /\ chart.band[1].rng = Range_new(F(30), F(60))

\* the number of days of the year of the pass
DaysOfPass == DaysInYear(pass.year.start.y)

\* C20: the summary values of a chart are those of the full-length dense
\* Series, one value per day of the year: the mean of the mean temperature,
\* the mean of the mean wind, the number of days with precipitation and the
\* precipitation total.  They do not depend on the downsample factor.
C20_SummaryOfDenseSeries ==
    Drawn =>
        CASE chart.kind = "temperature" ->
                LET dense == Dense("mean_temperature", "map").vals
                    mean == FDiv(Sum(dense), F(DaysOfPass))
                IN  /\ Len(dense) = DaysOfPass
                    /\ chart.avg = mean
                    /\ chart.draw.shown.AVG = FormatFixed(mean, 1)
          [] chart.kind = "wind" ->
                LET dense == Dense("mean_wind", "map").vals
                    mean == FDiv(Sum(dense), F(DaysOfPass))
                IN  /\ Len(dense) = DaysOfPass
                    /\ chart.avg = mean
                    /\ chart.draw.shown.AVG = FormatFixed(mean, 1)
          [] chart.kind = "precipitation" ->
                LET dense == Dense("precipitation", "or_zero").vals
                    wet == {i \in 1..Len(dense) : FLt(F(0), dense[i])}
                IN  /\ Len(dense) = DaysOfPass
                    /\ chart.num_days = Cardinality(wet)
                    /\ chart.total = Sum(dense)
                    /\ chart.draw.shown.DAYS = FormatInt(Cardinality(wet))
                    /\ chart.draw.shown.TOTAL = FormatFixed(Sum(dense), 1)

\* a wind chart drawn at a third of the resolution: the average shown is
\* that of the 365 daily values, not that of the 121 drawn ones
C20_Witness ==
    /\ Drawn
    /\ chart.kind = "wind"
    /\ pass.opts.downsample_by = 3
    /\ Len(chart.band[1].vals) = 121
    /\ chart.avg = Rat(510, 73)
    /\ chart.avg # MeanOfValues(chart.band[1])

----------------------------------------------------------------------------
(* Stored values against the Range of their Series *)

\* C25: in a Series built by from_iterator from at least one present value,
\* every stored value, filled ones included, lies in [rng.min, rng.max], so
\* that get_normalized(i) lies in [0, 1] for every index i.
C25_ValuesWithinRange ==
    (FromIter /\ Present(input.iter) # {}) =>
        \A i \in 1..Len(series.vals) :
            /\ FLe(series.rng.min, series.vals[i])
            /\ FLe(series.vals[i], series.rng.max)
            /\ FLe(F(0), get_normalized(series, i - 1).v)
            /\ FLe(get_normalized(series, i - 1).v, F(1))

\* the extremum indices of a Series are indices of its values
ValidIndices(s) ==
    /\ 0 <= s.min_index /\ s.min_index < Len(s.vals)
    /\ 0 <= s.max_index /\ s.max_index < Len(s.vals)

\* C26: downsample_by(k, agg) with 1 <= k <= n on a Series of n values whose
\* min_index and max_index are valid returns a Series whose min_index and
\* max_index are valid indices of its floor(n / k) values, also when the
\* original extremum lies in the dropped tail.
C26_DownsampledIndicesValid ==
    (/\ call.op = "downsample_by"
     /\ 1 <= call.n /\ call.n <= Len(series.vals)
     /\ ValidIndices(series)) =>
        /\ ret.kind = "Series"
        /\ Len(ret.s.vals) = Len(series.vals) \div call.n
        /\ ValidIndices(ret.s)

----------------------------------------------------------------------------
(* Scales of Ranges with finite ends *)

\* C27: for every Range with finite min < max and lim = 5 or lim = 4,
\* from_range finds a candidate step and returns a Scale that has at least
\* one tick and at most lim ticks.
C27_AlwaysAScale ==
    (/\ scall.op = "from_range"
     /\ scall.lim \in {F(4), F(5)}
     /\ scall.r.min.d # 0 /\ scall.r.max.d # 0
     /\ FLt(scall.r.min, scall.r.max)) =>
        /\ sret.kind = "Scale"
        /\ 1 <= Len(sret.steps)
        /\ Len(sret.steps) <= scall.lim.n

\* C29: from_range_with_step ends its loop and returns a Scale for every
\* Range and every step, a zero or negative step with range.min < range.max
\* included.
C29_WithStepTerminates ==
    scall.op = "from_range_with_step" => sret.kind = "Scale"

----------------------------------------------------------------------------
(* Claims about the drawing functions, checked under SpecCanvas *)

\* the top of the circle, in turns
Top == Rat(-1, 4)

\* the radius at which sample j (from 0) of the Series s is drawn
SampleRadius(s, rrange, j) ==
    Range_project(rrange, Range_normalize(s.rng, s.vals[j + 1]))

\* the positions in the Context of the calls with the operation op
CallsOf(op) == {i \in 1..Len(ctx) : ctx[i].call.op = op}

\* C22: render_radial_series on a Series of n >= 1 values moves once, to
\* sample 0 at the top of the circle, and then draws exactly n segments;
\* segment i (1..n) goes from sample i-1 at the angle (i-1)/n of a turn to
\* sample i mod n at the angle i/n of a turn, so the last one ends at the
\* radius of sample 0 one full turn after the start, and the curve that is
\* stroked visits every sample once, in calendar order.
C22_RadialSeriesLoop ==
    (ccall.op = "render_radial_series" /\ Len(ccall.series.vals) >= 1) =>
        LET s == ccall.series
            n == Len(s.vals)
            At(j, k) == Polar(SampleRadius(s, ccall.rrange, j), FAdd(Rat(k, n), Top))
        IN  /\ ccall.outcome = "Ok"
            /\ CallsOf("move_to") = {2}
            /\ ctx[2].call.to = At(0, 0)
            /\ CallsOf("curve_to") \cup CallsOf("line_to") = 3..(n + 2)
            /\ \A i \in 1..n :
                /\ ctx[i + 1].call.to = At(i - 1, i - 1)
                /\ ctx[i + 2].call.to = At(i % n, i)
                /\ ctx[i + 2].call.op = "curve_to" =>
                       /\ ctx[i + 2].call.c1.p = At(i - 1, i - 1)
                       /\ ctx[i + 2].call.c2.p = At(i % n, i)
            /\ ctx[n + 2].call.to = Polar(SampleRadius(s, ccall.rrange, 0), FAdd(F(1), Top))
            /\ CallsOf("stroke") = {Len(ctx)}
            /\ \A i \in 1..Len(ctx) : ctx[i].stack = <<"render_radial_series">>

\* three samples at three different radii, drawn as curves
C22_Witness ==
    /\ ccall.op = "render_radial_series"
    /\ ccall.smooth
    /\ ccall.series.vals = <<F(1), F(-1), F(2)>>
    /\ ctx[2].call.to = Polar(F(80), Rat(-1, 4))
    /\ ctx[3].call.to = Polar(F(60), Rat(1, 12))
    /\ ctx[4].call.to = Polar(F(90), Rat(5, 12))
    /\ ctx[5].call.to = Polar(F(80), Rat(3, 4))

\* the positions in the Context of the segments of the path
Segments == CallsOf("curve_to") \cup CallsOf("line_to")

\* C23: render_radial_range on two Series of the same length n >= 1 makes
\* one closed path: the max Series is traced forward from sample 0 around
\* the full circle, then, without a new sub-path being started, the min
\* Series is traced backward from its last sample to its first, in exactly
\* n segments that end at min sample 0.
C23_RadialRangeOnePath ==
    (/\ ccall.op = "render_radial_range"
     /\ Len(ccall.max.vals) = Len(ccall.min.vals)
     /\ Len(ccall.max.vals) >= 1) =>
        LET n == Len(ccall.max.vals)
            AtMax(j, k) == Polar(SampleRadius(ccall.max, ccall.rrange, j),
                                 FAdd(Rat(k, n), Top))
            AtMin(j, k) == Polar(SampleRadius(ccall.min, ccall.rrange, j),
                                 FAdd(Rat(k, n), Top))
        IN  /\ ccall.outcome = "Ok"
            /\ CallsOf("move_to") = {2}
            /\ ctx[2].call.to = AtMax(0, 0)
            /\ Segments = 3..(2 * n + 2)
            /\ \A i \in 1..n : ctx[i + 2].call.to = AtMax(i % n, i)
            /\ \A i \in 1..(n - 1) : ctx[n + 2 + i].call.to = AtMin(n - 1 - i, n - 1 - i)
            /\ ctx[2 * n + 2].call.to = AtMin(0, 0)

\* the calls of the Context with the operation op, in their order
Calls(op) ==
    LET Is(c) == c.call.op = op
    IN  SelectSeq(ctx, Is)

\* the angle a, in [0, 1) turns
Frac(a) == FSub(a, FFloor(a))

\* the angle t lies between the angles from and to, up to full turns
Covers(from, to, t) ==
    \E k \in {-1, 0, 1} : FLe(from, FAdd(t, F(k))) /\ FLe(FAdd(t, F(k)), to)

\* C24: render_months puts the label of each month at the mid-angle of the
\* wedge of that month, and wedges, labels and samples have one angular
\* origin: the wedge of the month that holds day d covers (up to the half
\* day by which wedges are set apart) the angle d / num_days - 1/4 turn at
\* which the sample of day d is drawn, and the January wedge starts, as
\* sample 0 does, at the top of the circle.
C24_MonthsAligned ==
    ccall.op = "render_months" =>
        LET y == ccall.year.start.y
            num_days == Year_duration(ccall.year)
            half == Rat(1, 2 * num_days)
            arcs == Calls("arc")
            rotates == Calls("rotate")
            moves == Calls("move_to")
            LabelAngle(m) == FAdd(rotates[m].call.angle, moves[m].call.to.middle.t)
        IN  /\ Len(arcs) = 12 /\ Len(rotates) = 12 /\ Len(moves) = 12
            /\ \A m \in 1..12 :
                /\ moves[m].call.to.text = MonthNames[m]
                /\ Frac(LabelAngle(m)) =
                       Frac(FDiv(FAdd(arcs[m].call.from, arcs[m].call.to), F(2)))
                /\ \A d \in DaysBefore(y, m)..(DaysBefore(y, m) + MonthLengths(y)[m] - 1) :
                       Covers(FSub(arcs[m].call.from, half),
                              FAdd(arcs[m].call.to, half),
                              FAdd(Rat(d, num_days), Top))
            /\ Frac(FSub(arcs[1].call.from, half)) = Frac(Top)

----------------------------------------------------------------------------
(* Claims about the calls of a render pass, checked under SpecRender *)

\* the chart a call belongs to: 1, 2, 3 for the temperature, the wind and the
\* precipitation chart, 0 for a call render makes outside the three chart
\* functions
ChartOf(e) ==
    IF Len(e.stack) < 2 THEN 0
    ELSE CASE e.stack[2] = "render_temperature" -> 1
           [] e.stack[2] = "render_wind" -> 2
           [] e.stack[2] = "render_precipitation" -> 3
           [] OTHER -> 0

\* the part of its chart a call draws: 1 the months, 2 the scales, 3 the
\* curves (the bars of the precipitation chart, which render_precipitation
\* draws itself, included), 4 the summary text; 0 for the save and restore
\* calls a chart function puts around the parts
PartOf(e) ==
    IF ChartOf(e) = 0 THEN 0
    ELSE IF Len(e.stack) = 2
    THEN (IF e.call.op \in {"save", "restore"} THEN 0 ELSE 3)
    ELSE CASE e.stack[3] = "render_months" -> 1
           [] e.stack[3] = "render_scales" -> 2
           [] e.stack[3] \in {"render_radial_range", "render_radial_series"} -> 3
           [] e.stack[3] = "render_center_text" -> 4
           [] OTHER -> 0

\* the drawing calls of the charts among the calls of log, in their order
DrawingCalls(log) ==
    LET Draws(e) == PartOf(e) > 0
    IN  SelectSeq(log, Draws)

\* no call of a later chart, and within a chart no call of a later part,
\* comes before the call that follows it
InOrder(d) ==
    \A i \in 1..(Len(d) - 1) :
        \/ ChartOf(d[i]) < ChartOf(d[i + 1])
        \/ /\ ChartOf(d[i]) = ChartOf(d[i + 1])
           /\ PartOf(d[i]) <= PartOf(d[i + 1])

\* C21: the calls of a render pass are only ever added at the end of those
\* made before; the drawing calls of each chart come in the order months,
\* scales, curves, summary text, and those of the three charts in the order
\* temperature, wind, precipitation, none of a later chart before one of an
\* earlier chart; a pass that returns Ok has drawn all four parts of all
\* three charts.
C21_DrawingOrder ==
    [][\A d \in {DrawingCalls(ctx')} :
           /\ Len(ctx) <= Len(ctx')
           /\ SubSeq(ctx', 1, Len(ctx)) = ctx
           /\ InOrder(d)
           /\ pc' = "done" =>
                  {<<ChartOf(d[i]), PartOf(d[i])>> : i \in 1..Len(d)}
                      = (1..3) \X (1..4)]_vars

\* a pass over a station with records has returned Ok with --debug
C21_Witness ==
    /\ pc = "done"
    /\ Len(pass.station.days) = 3
    /\ pass.opts.debug
    /\ pass.opts.smooth
    /\ \E i \in 1..Len(ctx) :
        ctx[i].stack = <<"render", "render_temperature", "render_center_text">>
    /\ \E i \in 1..Len(ctx) :
        ctx[i].stack = <<"render", "render_wind", "render_months">>
    /\ \E i \in 1..Len(ctx) :
        /\ ctx[i].stack = <<"render", "render_precipitation">>
        /\ ctx[i].call.op = "line_to"

\* the saves and restores among the calls lo..hi of log: net is the number
\* of saves less the number of restores, low and high are the least and the
\* greatest value net takes on the way (0 before the first call)
RECURSIVE Balance(_, _, _)
Balance(log, lo, hi) ==
    IF hi < lo THEN [net |-> 0, low |-> 0, high |-> 0]
    ELSE IF lo = hi
    THEN CASE log[lo].call.op = "save" -> [net |-> 1, low |-> 0, high |-> 1]
           [] log[lo].call.op = "restore" -> [net |-> -1, low |-> -1, high |-> 0]
           [] OTHER -> [net |-> 0, low |-> 0, high |-> 0]
    ELSE LET mid == (lo + hi) \div 2
             a == Balance(log, lo, mid)
             b == Balance(log, mid + 1, hi)
         IN  [net |-> a.net + b.net,
              low |-> IF a.net + b.low < a.low THEN a.net + b.low ELSE a.low,
              high |-> IF a.net + b.high > a.high THEN a.net + b.high ELSE a.high]

\* C28: in a render that returns Ok the save and restore calls are nested:
\* at no point were there more restores than saves, and at the return, as
\* between one chart and the next, there are as many restores as saves, so
\* every translate is made one save deep and is undone before the next
\* chart is drawn.
C28_SaveRestoreNested ==
    pc \in {"temperature", "wind", "precipitation", "done"} =>
        \A b \in {Balance(ctx, 1, Len(ctx))} :
            /\ b.low >= 0
            /\ b.net = 0
            /\ \A i \in CallsOf("translate") : Balance(ctx, 1, i - 1).net = 1
            /\ pc = "done" => Cardinality(CallsOf("translate")) = 3

\* a pass with --debug has returned Ok; saves were nested three deep
C28_Witness ==
    /\ pc = "done"
    /\ pass.opts.debug
    /\ Len(pass.station.days) = 3
    /\ Balance(ctx, 1, Len(ctx)).high = 3
    /\ Cardinality(CallsOf("save")) > 50
    /\ ctx[Len(ctx)].call.op = "restore"

----------------------------------------------------------------------------
(* Claims about Data, checked under SpecData *)

\* C30: download_and_open fetches the URL exactly when there is no file at
\* the destination, and opens a file that is there without a request; a
\* call whose download fails leaves no file at the destination, so that a
\* later call for it downloads again and no call opens an empty file or a
\* part of the archive.
C30_FailedDownloadLeavesNoFile ==
    dcall.op = "download_and_open" =>
        /\ dcall.requested = ~dcall.existed
        /\ (dcall.requested /\ dcall.ret.kind = "Err") => ~files[dcall.dst].exists
        /\ dcall.ret.kind = "Ok" =>
               dcall.ret.opened \notin {"empty", "part of the archive"}

====
